---- MODULE Spec2Model ----
(***************************************************************************)
(* A model of the chrono library (src/index.ts, current revision at lines  *)
(* 297-663): the TimePeriod and TimePoint value types, wait and atTime.     *)
(*                                                                         *)
(* Numbers.  A JavaScript number is modelled as an exact rational          *)
(* [n |-> numerator, d |-> denominator] in lowest terms with d > 0.        *)
(* IEEE-754 rounding, NaN and the infinities are outside the model: every  *)
(* property below is a property of the exact arithmetic the code performs. *)
(* TLC's integers are 32-bit and overflow is a TLC error, so the inputs    *)
(* are chosen to keep every intermediate value below 2^31.                 *)
(*                                                                         *)
(* Objects.  TimePeriod and TimePoint instances live in heap, a sequence   *)
(* indexed by object identity; a method that returns a new object appends  *)
(* to heap and returns the new index.  last records the most recent call:  *)
(* its receiver, arguments, return value and the heap as it was before.    *)
(*                                                                         *)
(* Host.  host holds what wait and atTime use of the host: the clock that  *)
(* Date.now() reads, the timers armed by setTimeout and not yet fired, and *)
(* a log of the calls the host has made back into the program.             *)
(***************************************************************************)
EXTENDS Integers, Sequences, FiniteSets, TLC

VARIABLES heap, last, host

vars == <<heap, last, host>>

(***************************************************************************)
(* Exact rational arithmetic                                               *)
(***************************************************************************)
Abs(i) == IF i < 0 THEN -i ELSE i

RECURSIVE GCD(_, _)
GCD(a, b) == IF b = 0 THEN a ELSE GCD(b, a % b)

Norm(n, d) ==
    LET g == GCD(Abs(n), d)
    IN  [n |-> n \div g, d |-> d \div g]

R(i) == [n |-> i, d |-> 1]

Frac(n, d) == Norm(n, d)

Zero == R(0)

RNeg(a) == [n |-> -a.n, d |-> a.d]

RAdd(a, b) ==
    LET g == GCD(a.d, b.d)
        ka == b.d \div g
        kb == a.d \div g
    IN  Norm(a.n * ka + b.n * kb, a.d * ka)

RSub(a, b) == RAdd(a, RNeg(b))

RMul(a, b) ==
    LET g1 == GCD(Abs(a.n), b.d)
        g2 == GCD(Abs(b.n), a.d)
    IN  Norm((a.n \div g1) * (b.n \div g2), (a.d \div g2) * (b.d \div g1))

RInv(b) == IF b.n > 0 THEN [n |-> b.d, d |-> b.n] ELSE [n |-> -b.d, d |-> -b.n]

RDiv(a, b) == RMul(a, RInv(b))

MaxInt == (2^30 - 1) + 2^30

\* an integer above |v|
Mag(v) == Abs(v.n) \div v.d + 1

LCM(a, b) == (a \div GCD(a, b)) * b

RECURSIVE LcmDen(_, _)
LcmDen(terms, i) ==
    IF i > Len(terms) THEN 1 ELSE LCM(terms[i].d, LcmDen(terms, i + 1))

RECURSIVE SumMag(_, _)
SumMag(terms, i) ==
    IF i > Len(terms) THEN 0 ELSE Mag(terms[i]) + SumMag(terms, i + 1)

\* a < b, comparing the integer parts first and the fractional parts after
RLess(a, b) ==
    LET fa == a.n \div a.d
        fb == b.n \div b.d
    IN  IF fa # fb THEN fa < fb
        ELSE (a.n % a.d) * b.d < (b.n % b.d) * a.d

RLeq(a, b) == a = b \/ RLess(a, b)

RAbs(a) == [n |-> Abs(a.n), d |-> a.d]

\* Math.floor: rounds toward negative infinity
MathFloor(a) == R(a.n \div a.d)

\* truncation toward zero (ToIntegerOrInfinity)
RTrunc(a) == IF a.n < 0 THEN R(-((-a.n) \div a.d)) ELSE R(a.n \div a.d)

\* the JavaScript remainder v % 1: it takes the sign of the dividend
JsRem1(v) == RSub(v, RTrunc(v))

(***************************************************************************)
(* TimeUnit and the divisor table                                          *)
(***************************************************************************)
TimeUnit ==
    {"milliseconds", "seconds", "minutes", "hours", "days", "weeks", "microfortnights"}

divisors(unit) ==
    CASE unit = "microfortnights" -> Frac(12096, 10)
      [] unit = "weeks"           -> R(3600000 * 24 * 7)
      [] unit = "days"            -> R(3600000 * 24)
      [] unit = "hours"           -> R(3600000)
      [] unit = "minutes"         -> R(60000)
      [] unit = "seconds"         -> R(1000)
      [] unit = "milliseconds"    -> R(1)

(***************************************************************************)
(* Plain objects with insertion-ordered keys: a sequence of                *)
(* [unit, amount] entries with distinct units.                             *)
(***************************************************************************)
Keys(obj) == {obj[i].unit : i \in DOMAIN obj}

KeySeq(obj) == [i \in DOMAIN obj |-> obj[i].unit]

Get(obj, k) == obj[CHOOSE i \in DOMAIN obj : obj[i].unit = k].amount

\* result[unit] = amount: an existing key keeps its position
SetKey(obj, k, v) ==
    IF k \in Keys(obj)
    THEN [i \in DOMAIN obj |-> IF obj[i].unit = k THEN [unit |-> k, amount |-> v] ELSE obj[i]]
    ELSE Append(obj, [unit |-> k, amount |-> v])

\* Object.entries(t).reduce((sum, [unit, amount]) => sum + divisors[unit] * amount, 0)
RECURSIVE SumEntries(_, _, _)
SumEntries(t, i, sum) ==
    IF i > Len(t) THEN sum
    ELSE SumEntries(t, i + 1, RAdd(sum, RMul(divisors(t[i].unit), t[i].amount)))

(***************************************************************************)
(* TimePeriod.breakdown                                                    *)
(***************************************************************************)
OptionKeys == {"floatLast", "includeZero"}

\* the option objects a caller can pass: any subset of the two keys
PartialOptions == UNION {[ks -> BOOLEAN] : ks \in SUBSET OptionKeys}

NoOptions == CHOOSE o \in PartialOptions : DOMAIN o = {}

\* {...defaults, ...given}
Spread(defaults, given) ==
    [k \in OptionKeys |-> IF k \in DOMAIN given THEN given[k] ELSE defaults[k]]

\* the first argument of breakdown: a unit list, [isArray |-> TRUE, list |-> ...],
\* or none, as in breakdown() and breakdown(options)
UnitList(list) == [isArray |-> TRUE, list |-> list]

NoUnitList == [isArray |-> FALSE]

DefaultBreakdownUnits == <<"days", "hours", "minutes", "seconds", "milliseconds">>

\* mutant: the defaults of the two call forms are exchanged
fullOptions_swapped(units, options) ==
    IF units.isArray
    THEN Spread([floatLast |-> TRUE, includeZero |-> FALSE], options)
    ELSE Spread([floatLast |-> FALSE, includeZero |-> TRUE], options)

fullOptions(units, options) ==
    IF units.isArray
    THEN Spread([floatLast |-> FALSE, includeZero |-> TRUE], options)
    ELSE Spread([floatLast |-> TRUE, includeZero |-> FALSE], options)

unitsOrDefault(units) ==
    IF units.isArray THEN units.list ELSE DefaultBreakdownUnits

\* one step of the stable sort: u goes after every element that the comparator
\* (a, b) => divisors[b] - divisors[a] does not place behind it
InsertUnit(sorted, u) ==
    LET before == {i \in DOMAIN sorted : ~RLess(divisors(sorted[i]), divisors(u))}
        k == Cardinality(before)
    IN  SubSeq(sorted, 1, k) \o <<u>> \o SubSeq(sorted, k + 1, Len(sorted))

RECURSIVE SortFrom(_, _, _)
SortFrom(units, i, sorted) ==
    IF i > Len(units) THEN sorted
    ELSE SortFrom(units, i + 1, InsertUnit(sorted, units[i]))

\* mutant: the caller's order is kept
sortUnits_unsorted(units) == units

\* [...units].sort((a, b) => divisors[b] - divisors[a])
sortUnits(units) == SortFrom(units, 1, <<>>)

\* floatLast && units.at(-1)
NoFloatUnit == "none"

floatUnitOf(floatLast, units) ==
    IF floatLast /\ Len(units) > 0 THEN units[Len(units)] ELSE NoFloatUnit

\* mutant: remaining is reduced by amount instead of amount * div
forEachBody_noDivisor(st, unit, floatUnit, includeZero) ==
    LET div == divisors(unit)
    IN  IF unit = floatUnit
        THEN LET amount == RDiv(st.remaining, div)
             IN  [remaining |-> st.remaining,
                  result    |-> IF includeZero \/ amount # Zero
                                THEN SetKey(st.result, unit, amount) ELSE st.result,
                  amounts   |-> Append(st.amounts, [unit |-> unit, amount |-> amount])]
        ELSE LET amount == MathFloor(RDiv(st.remaining, div))
             IN  [remaining |-> RSub(st.remaining, amount),
                  result    |-> IF includeZero \/ amount # Zero
                                THEN SetKey(st.result, unit, amount) ELSE st.result,
                  amounts   |-> Append(st.amounts, [unit |-> unit, amount |-> amount])]

\* mutant: an entry is stored when amount > 0 instead of amount !== 0
forEachBody_positiveOnly(st, unit, floatUnit, includeZero) ==
    LET div == divisors(unit)
    IN  IF unit = floatUnit
        THEN LET amount == RDiv(st.remaining, div)
             IN  [remaining |-> st.remaining,
                  result    |-> IF includeZero \/ RLess(Zero, amount)
                                THEN SetKey(st.result, unit, amount) ELSE st.result,
                  amounts   |-> Append(st.amounts, [unit |-> unit, amount |-> amount])]
        ELSE LET amount == MathFloor(RDiv(st.remaining, div))
             IN  [remaining |-> RSub(st.remaining, RMul(amount, div)),
                  result    |-> IF includeZero \/ RLess(Zero, amount)
                                THEN SetKey(st.result, unit, amount) ELSE st.result,
                  amounts   |-> Append(st.amounts, [unit |-> unit, amount |-> amount])]

\* mutant: the amount is truncated toward zero instead of floored
forEachBody_truncate(st, unit, floatUnit, includeZero) ==
    LET div == divisors(unit)
    IN  IF unit = floatUnit
        THEN LET amount == RDiv(st.remaining, div)
             IN  [remaining |-> st.remaining,
                  result    |-> IF includeZero \/ amount # Zero
                                THEN SetKey(st.result, unit, amount) ELSE st.result,
                  amounts   |-> Append(st.amounts, [unit |-> unit, amount |-> amount])]
        ELSE LET amount == RTrunc(RDiv(st.remaining, div))
             IN  [remaining |-> RSub(st.remaining, RMul(amount, div)),
                  result    |-> IF includeZero \/ amount # Zero
                                THEN SetKey(st.result, unit, amount) ELSE st.result,
                  amounts   |-> Append(st.amounts, [unit |-> unit, amount |-> amount])]

\* mutant: remaining is not reduced
forEachBody_noRemainder(st, unit, floatUnit, includeZero) ==
    LET div == divisors(unit)
    IN  IF unit = floatUnit
        THEN LET amount == RDiv(st.remaining, div)
             IN  [remaining |-> st.remaining,
                  result    |-> IF includeZero \/ amount # Zero
                                THEN SetKey(st.result, unit, amount) ELSE st.result,
                  amounts   |-> Append(st.amounts, [unit |-> unit, amount |-> amount])]
        ELSE LET amount == MathFloor(RDiv(st.remaining, div))
             IN  [remaining |-> st.remaining,
                  result    |-> IF includeZero \/ amount # Zero
                                THEN SetKey(st.result, unit, amount) ELSE st.result,
                  amounts   |-> Append(st.amounts, [unit |-> unit, amount |-> amount])]

\* the body of units.forEach(unit => ...), applied to the loop state
\* st = [remaining, result, amounts]; amounts logs the amount computed at every
\* iteration, whether or not it is stored in result
forEachBody(st, unit, floatUnit, includeZero) ==
    LET div == divisors(unit)
    IN  IF unit = floatUnit
        THEN LET amount == RDiv(st.remaining, div)
             IN  [remaining |-> st.remaining,
                  result    |-> IF includeZero \/ amount # Zero
                                THEN SetKey(st.result, unit, amount) ELSE st.result,
                  amounts   |-> Append(st.amounts, [unit |-> unit, amount |-> amount])]
        ELSE LET amount == MathFloor(RDiv(st.remaining, div))
             IN  [remaining |-> RSub(st.remaining, RMul(amount, div)),
                  result    |-> IF includeZero \/ amount # Zero
                                THEN SetKey(st.result, unit, amount) ELSE st.result,
                  amounts   |-> Append(st.amounts, [unit |-> unit, amount |-> amount])]

RECURSIVE forEachFrom(_, _, _, _, _)
forEachFrom(units, i, st, floatUnit, includeZero) ==
    IF i > Len(units) THEN st
    ELSE forEachFrom(units, i + 1, forEachBody(st, units[i], floatUnit, includeZero),
                     floatUnit, includeZero)

\* the loop over an already sorted unit list with resolved options
breakdownLoop(ms, sorted, floatLast, includeZero) ==
    forEachFrom(sorted, 1, [remaining |-> ms, result |-> <<>>, amounts |-> <<>>],
                floatUnitOf(floatLast, sorted), includeZero)

\* TimePeriod.breakdown(units?, options?) on a period of ms milliseconds
breakdownRun(ms, units, options) ==
    LET full == fullOptions(units, options)
    IN  breakdownLoop(ms, sortUnits(unitsOrDefault(units)), full.floatLast, full.includeZero)

breakdown(ms, units, options) == breakdownRun(ms, units, options).result

(***************************************************************************)
(* The object heap                                                         *)
(***************************************************************************)
\* a TimePeriod instance: readonly asMilliseconds
PeriodObj(ms) == [type |-> "TimePeriod", asMilliseconds |-> ms]

\* a TimePoint instance: readonly unixEpoch, a reference to a TimePeriod
PointObj(ref) == [type |-> "TimePoint", unixEpoch |-> ref]

Periods(h) == {i \in DOMAIN h : h[i].type = "TimePeriod"}

Points(h) == {i \in DOMAIN h : h[i].type = "TimePoint"}

\* new: the object gets the next identity
Alloc(h, obj) == [heap |-> Append(h, obj), ret |-> Len(h) + 1]

NoCall == [op |-> "none"]

\* the host's clock and timers before any scheduler function is called
NoHost == [clock |-> 0, timers |-> {}, log |-> <<>>, promise |-> "none"]

(***************************************************************************)
(* Values passed to constructors and methods                               *)
(***************************************************************************)
\* a number
Number(x) == [kind |-> "number", value |-> x]

\* a unit-to-amount object (PartialBreakdown), entries in insertion order
Mapping(entries) == [kind |-> "mapping", value |-> entries]

\* a TimePeriod or TimePoint instance, by identity
Ref(i) == [kind |-> "object", value |-> i]

\* a Date with the given getTime()
DateOf(ms) == [kind |-> "Date", value |-> ms]

(***************************************************************************)
(* TimePeriod                                                              *)
(***************************************************************************)
\* mutant: each entry replaces the sum instead of adding to it
TimePeriod_asMilliseconds_lastEntry(t) ==
    IF t.kind = "number" THEN t.value
    ELSE IF Len(t.value) = 0 THEN Zero
    ELSE RMul(divisors(t.value[Len(t.value)].unit), t.value[Len(t.value)].amount)

\* the asMilliseconds that constructor(t) assigns
TimePeriod_asMilliseconds(t) ==
    IF t.kind = "number" THEN t.value
    ELSE SumEntries(t.value, 1, Zero)

\* new TimePeriod(t)
new_TimePeriod(h, t) == Alloc(h, PeriodObj(TimePeriod_asMilliseconds(t)))

\* (p instanceof TimePeriod ? p : new TimePeriod(p)).asMilliseconds; the
\* temporary TimePeriod is not kept
periodMs(h, p) ==
    IF p.kind = "object" THEN h[p.value].asMilliseconds
    ELSE TimePeriod_asMilliseconds(p)

\* periods.reduce((sum, p) => sum + (...).asMilliseconds, this.asMilliseconds)
RECURSIVE reducePeriods(_, _, _, _)
reducePeriods(h, periods, i, sum) ==
    IF i > Len(periods) THEN sum
    ELSE reducePeriods(h, periods, i + 1, RAdd(sum, periodMs(h, periods[i])))

\* mutant: the receiver is changed in place and returned
TimePeriod_add_inPlace(h, this, periods) ==
    [heap |-> [h EXCEPT ![this].asMilliseconds =
                   reducePeriods(h, periods, 1, h[this].asMilliseconds)],
     ret  |-> this]

\* mutant: only the first argument is added
TimePeriod_add_firstOnly(h, this, periods) ==
    new_TimePeriod(h, Mapping(<<[unit |-> "milliseconds",
        amount |-> IF Len(periods) = 0 THEN h[this].asMilliseconds
                   ELSE RAdd(h[this].asMilliseconds, periodMs(h, periods[1]))]>>))

TimePeriod_add(h, this, periods) ==
    new_TimePeriod(h, Mapping(<<[unit |-> "milliseconds",
        amount |-> reducePeriods(h, periods, 1, h[this].asMilliseconds)]>>))

TimePeriod_subtract(h, this, period) ==
    new_TimePeriod(h, Number(RSub(h[this].asMilliseconds, periodMs(h, period))))

TimePeriod_multiply(h, this, by) ==
    new_TimePeriod(h, Mapping(<<[unit |-> "milliseconds",
        amount |-> RMul(h[this].asMilliseconds, by)]>>))

TimePeriod_divide(h, this, by) ==
    new_TimePeriod(h, Mapping(<<[unit |-> "milliseconds",
        amount |-> RDiv(h[this].asMilliseconds, by)]>>))

TimePeriod_equals(h, this, period) ==
    [heap |-> h, ret |-> h[period].asMilliseconds = h[this].asMilliseconds]

\* mutant: the receiver is returned whatever its sign
TimePeriod_abs_identity(h, this) == [heap |-> h, ret |-> this]

\* mutant: a new TimePeriod is returned whatever the sign
TimePeriod_abs_alwaysNew(h, this) ==
    new_TimePeriod(h, Number(RAbs(h[this].asMilliseconds)))

TimePeriod_abs(h, this) ==
    IF RLess(h[this].asMilliseconds, Zero)
    THEN new_TimePeriod(h, Number(RAbs(h[this].asMilliseconds)))
    ELSE [heap |-> h, ret |-> this]

TimePeriod_toJSON(h, this) ==
    [heap |-> h,
     ret  |-> <<[unit |-> "milliseconds", amount |-> h[this].asMilliseconds]>>]

\* mutant: days(n) built with the hours divisor
TimePeriod_static_wrongUnit(h, unit, n) ==
    IF unit = "milliseconds" THEN new_TimePeriod(h, Number(n))
    ELSE new_TimePeriod(h, Mapping(<<[unit |-> IF unit = "days" THEN "hours" ELSE unit,
                                      amount |-> n]>>))

\* static weeks(n), days(n), hours(n), minutes(n), seconds(n), milliseconds(n)
TimePeriod_static(h, unit, n) ==
    IF unit = "milliseconds" THEN new_TimePeriod(h, Number(n))
    ELSE new_TimePeriod(h, Mapping(<<[unit |-> unit, amount |-> n]>>))

StaticUnits == {"weeks", "days", "hours", "minutes", "seconds", "milliseconds"}

(***************************************************************************)
(* Strings, as sequences of characters                                     *)
(***************************************************************************)
Digit(k) == <<"0", "1", "2", "3", "4", "5", "6", "7", "8", "9">>[k + 1]

RECURSIVE NatToString(_)
NatToString(n) ==
    IF n < 10 THEN <<Digit(n)>> ELSE NatToString(n \div 10) \o <<Digit(n % 10)>>

\* the decimal digits of r / d, 0 <= r < d, for a terminating expansion
RECURSIVE FractionDigits(_, _)
FractionDigits(r, d) ==
    IF r = 0 THEN <<>>
    ELSE <<Digit((r * 10) \div d)>> \o FractionDigits((r * 10) % d, d)

\* n + '': Number::toString for a number with a short decimal expansion
NumberToString(v) ==
    LET a == Abs(v.n)
    IN  (IF v.n < 0 THEN <<"-">> ELSE <<>>)
        \o NatToString(a \div v.d)
        \o (IF a % v.d = 0 THEN <<>> ELSE <<".">> \o FractionDigits(a % v.d, v.d))

\* String.prototype.padStart(targetLength, padString) with a one-character pad
padStart(str, targetLength, pad) ==
    IF Len(str) >= targetLength THEN str
    ELSE [i \in 1..(targetLength - Len(str)) |-> pad] \o str

(***************************************************************************)
(* The host's Date                                                         *)
(***************************************************************************)
\* new Date(string).getTime(): the host parser's answer is not interpreted
Date_parse(str) == [parse |-> str]

IsLeapYear(y) == y % 4 = 0 /\ (y % 100 # 0 \/ y % 400 = 0)

\* the year new Date(year, month, day) uses: the integer part of year, and
\* 1900 + that for 0..99
Date_fullYear(year) ==
    LET yi == RTrunc(year).n
    IN  IF 0 <= yi /\ yi <= 99 THEN 1900 + yi ELSE yi

\* new Date(year, month, 0).getDate() for month in 1..12: the last day of that
\* calendar month
Date_lastDayOfMonth(year, month) ==
    LET m == RTrunc(month).n
    IN  IF m = 2 THEN (IF IsLeapYear(Date_fullYear(year)) THEN R(29) ELSE R(28))
        ELSE IF m \in {4, 6, 9, 11} THEN R(30) ELSE R(31)

(***************************************************************************)
(* TimePoint                                                               *)
(***************************************************************************)
\* an object that is neither a Date nor a TimePeriod, with its own fields
PlainObject(fields) == [kind |-> "plain", value |-> fields]

\* a calendar descriptor (TimePointDescription)
Descriptor(d) == PlainObject(d)

\* {unixEpoch: entries} (TimePointEpochDescription)
EpochDescription(entries) == PlainObject([unixEpoch |-> entries])

\* a string
String(chars) == [kind |-> "string", value |-> chars]

NoError == "none"

\* the throw statements of the descriptor branch, in order; NoError when none is reached
descriptorError(d) ==
    IF \E v \in {d.year, d.month, d.day, d.hour, d.minute} : RLess(Zero, JsRem1(v))
    THEN [type |-> "Error",
          message |-> "Invalid time descriptor (non-integral values are only allowed for 'second')"]
    ELSE IF RLess(d.month, R(1)) \/ RLess(R(12), d.month)
    THEN [type |-> "RangeError", message |-> "Invalid month"]
    ELSE IF RLess(d.day, R(1)) \/ RLess(Date_lastDayOfMonth(d.year, d.month), d.day)
    THEN [type |-> "RangeError", message |-> "Invalid day"]
    ELSE IF RLess(d.hour, Zero) \/ ~RLess(d.hour, R(24))
    THEN [type |-> "RangeError", message |-> "Invalid hour"]
    ELSE IF RLess(d.minute, Zero) \/ ~RLess(d.minute, R(60))
    THEN [type |-> "RangeError", message |-> "Invalid minute"]
    ELSE IF RLess(d.second, Zero) \/ ~RLess(d.second, R(60))
    THEN [type |-> "RangeError", message |-> "Invalid second"]
    ELSE [type |-> NoError, message |-> ""]

pad2(n) == padStart(NumberToString(n), 2, "0")

\* `${year}-${month0}-${day0} ${hour0}:${minute0}:${second0} ${timezone}`
descriptorString(d) ==
    NumberToString(d.year) \o <<"-">> \o pad2(d.month) \o <<"-">> \o pad2(d.day)
    \o <<" ">> \o pad2(d.hour) \o <<":">> \o pad2(d.minute) \o <<":">> \o pad2(d.second)
    \o <<" ">> \o d.timezone

Returned(r) == [heap |-> r.heap, ret |-> r.ret, threw |-> [type |-> NoError, message |-> ""]]

Thrown(h, e) == [heap |-> h, ret |-> 0, threw |-> e]

\* new TimePoint(input) for a string, a Date, a number, a TimePeriod or an
\* object with a unixEpoch key
new_TimePoint_plain(h, input) ==
    IF input.kind = "string"
    THEN LET p == new_TimePeriod(h, Number(Date_parse(input.value)))
         IN  Alloc(p.heap, PointObj(p.ret))
    ELSE IF input.kind \in {"Date", "number"}
    THEN LET p == new_TimePeriod(h, Number(input.value))
         IN  Alloc(p.heap, PointObj(p.ret))
    ELSE IF input.kind = "object"
    THEN Alloc(h, PointObj(input.value))
    ELSE LET p == new_TimePeriod(h, Mapping(input.value.unixEpoch))
         IN  Alloc(p.heap, PointObj(p.ret))

\* mutant: an object with calendar fields is validated before the unixEpoch
\* key is looked at
new_TimePoint_validateFirst(h, input) ==
    IF input.kind # "plain" \/ "year" \notin DOMAIN input.value
    THEN Returned(new_TimePoint_plain(h, input))
    ELSE LET e == descriptorError(input.value)
         IN  IF e.type # NoError THEN Thrown(h, e)
             ELSE LET inner == new_TimePoint_plain(h, String(descriptorString(input.value)))
                  IN  Returned(Alloc(inner.heap, PointObj(inner.heap[inner.ret].unixEpoch)))

\* new TimePoint(input): the new heap and object, or the error thrown
new_TimePoint(h, input) ==
    IF input.kind # "plain" \/ "unixEpoch" \in DOMAIN input.value
    THEN Returned(new_TimePoint_plain(h, input))
    ELSE LET e == descriptorError(input.value)
         IN  IF e.type # NoError THEN Thrown(h, e)
             ELSE LET inner == new_TimePoint_plain(h, String(descriptorString(input.value)))
                  IN  Returned(Alloc(inner.heap, PointObj(inner.heap[inner.ret].unixEpoch)))

\* the unixEpoch.asMilliseconds of a TimePoint
pointMs(h, this) == h[h[this].unixEpoch].asMilliseconds

\* when instanceof Date ? when.getTime() : when.unixEpoch.asMilliseconds
whenMs(h, when) ==
    IF when.kind = "Date" THEN when.value ELSE pointMs(h, when.value)

TimePoint_isBefore(h, this, when) ==
    [heap |-> h, ret |-> RLess(pointMs(h, this), whenMs(h, when))]

TimePoint_isAfter(h, this, when) ==
    [heap |-> h, ret |-> RLess(whenMs(h, when), pointMs(h, this))]

TimePoint_add(h, this, periods) ==
    LET sum == TimePeriod_add(h, h[this].unixEpoch, periods)
    IN  new_TimePoint_plain(sum.heap, Ref(sum.ret))

TimePoint_subtract(h, this, period) ==
    LET diff == TimePeriod_subtract(h, h[this].unixEpoch, period)
    IN  new_TimePoint_plain(diff.heap, Ref(diff.ret))

\* mutant: this minus time
TimePoint_difference_reversed(h, this, time) ==
    new_TimePeriod(h, Number(RSub(pointMs(h, this), whenMs(h, time))))

TimePoint_difference(h, this, time) ==
    new_TimePeriod(h, Number(RSub(whenMs(h, time), pointMs(h, this))))

TimePoint_equals(h, this, point) ==
    [heap |-> h, ret |-> pointMs(h, this) = whenMs(h, point)]

\* mutant: the two signs exchanged
TimePoint_compare_swapped(h, this, point) ==
    [heap |-> h,
     ret  |-> IF pointMs(h, this) = whenMs(h, point) THEN 0
              ELSE IF RLess(pointMs(h, this), whenMs(h, point)) THEN 1 ELSE -1]

TimePoint_compare(h, this, point) ==
    [heap |-> h,
     ret  |-> IF pointMs(h, this) = whenMs(h, point) THEN 0
              ELSE IF RLess(pointMs(h, this), whenMs(h, point)) THEN -1 ELSE 1]

\* mutant: the breakdown stops at seconds
TimePoint_toJSON_noMilliseconds(h, this) ==
    [heap |-> h,
     ret  |-> [unixEpoch |-> breakdown(pointMs(h, this),
                                UnitList(<<"days", "hours", "minutes", "seconds">>),
                                [floatLast |-> FALSE])]]

TimePoint_toJSON(h, this) ==
    [heap |-> h, ret |-> [unixEpoch |-> breakdown(pointMs(h, this), NoUnitList, NoOptions)]]

(***************************************************************************)
(* wait and atTime, and the host's timers                                  *)
(***************************************************************************)
\* get asSeconds()
TimePeriod_asSeconds(h, this) == RDiv(h[this].asMilliseconds, divisors("seconds"))

\* static now(): new TimePoint(Date.now())
TimePoint_now(h, hst) == new_TimePoint_plain(h, Number(R(hst.clock)))

\* mutant: a timer that would call atTime again is not armed
setTimeout_dropped(hst, handler, delay) ==
    IF handler.run = "atTime" THEN hst
    ELSE [hst EXCEPT !.timers = @ \cup
            {[handler |-> handler, delay |-> delay, armedAt |-> hst.clock]}]

\* setTimeout(handler, delay): the host arms a timer
setTimeout(hst, handler, delay) ==
    [hst EXCEPT !.timers = @ \cup
        {[handler |-> handler, delay |-> delay, armedAt |-> hst.clock]}]

FuncHandler(func) == [run |-> "func", func |-> func]

\* mutant: the callback is kept in one place shared by all chains
AtTimeHandler_shared(time, func) == [run |-> "atTime", time |-> time, func |-> "fnA"]

\* () => atTime(time, func)
AtTimeHandler(time, func) == [run |-> "atTime", time |-> time, func |-> func]

\* mutant: after the 30000 ms timer the callback is called, not atTime
atTime_fireAfterStep(h, hst, time, func) ==
    LET now  == TimePoint_now(h, hst)
        diff == TimePoint_difference(now.heap, now.ret, time)
    IN  [heap |-> diff.heap,
         host |-> IF RLess(TimePeriod_asSeconds(diff.heap, diff.ret), R(30))
                  THEN setTimeout(hst, FuncHandler(func), diff.heap[diff.ret].asMilliseconds)
                  ELSE setTimeout(hst, FuncHandler(func), R(30000))]

\* mutant: the callback is scheduled directly below one minute
atTime_minute(h, hst, time, func) ==
    LET now  == TimePoint_now(h, hst)
        diff == TimePoint_difference(now.heap, now.ret, time)
    IN  [heap |-> diff.heap,
         host |-> IF RLess(TimePeriod_asSeconds(diff.heap, diff.ret), R(60))
                  THEN setTimeout(hst, FuncHandler(func), diff.heap[diff.ret].asMilliseconds)
                  ELSE setTimeout(hst, AtTimeHandler(time, func), R(30000))]

\* mutant: the last timer is a 30000 ms timer too
atTime_quantized(h, hst, time, func) ==
    LET now  == TimePoint_now(h, hst)
        diff == TimePoint_difference(now.heap, now.ret, time)
    IN  [heap |-> diff.heap,
         host |-> IF RLess(TimePeriod_asSeconds(diff.heap, diff.ret), R(30))
                  THEN setTimeout(hst, FuncHandler(func), R(30000))
                  ELSE setTimeout(hst, AtTimeHandler(time, func), R(30000))]

\* mutant: for a target already reached the callback is called at once
atTime_synchronous(h, hst, time, func) ==
    LET now  == TimePoint_now(h, hst)
        diff == TimePoint_difference(now.heap, now.ret, time)
    IN  [heap |-> diff.heap,
         host |-> IF ~RLess(Zero, diff.heap[diff.ret].asMilliseconds)
                  THEN [hst EXCEPT !.log = Append(@, [run |-> "func",
                                                       func |-> func,
                                                       at |-> hst.clock,
                                                       late |-> 0]),
                                    !.promise = IF func = "resolve" THEN "fulfilled" ELSE @]
                  ELSE IF RLess(TimePeriod_asSeconds(diff.heap, diff.ret), R(30))
                  THEN setTimeout(hst, FuncHandler(func), diff.heap[diff.ret].asMilliseconds)
                  ELSE setTimeout(hst, AtTimeHandler(time, func), R(30000))]

\* mutant: no return after the callback's timer is armed
atTime_noReturn(h, hst, time, func) ==
    LET now  == TimePoint_now(h, hst)
        diff == TimePoint_difference(now.heap, now.ret, time)
    IN  [heap |-> diff.heap,
         host |-> IF RLess(TimePeriod_asSeconds(diff.heap, diff.ret), R(30))
                  THEN setTimeout(setTimeout(hst, FuncHandler(func),
                                             diff.heap[diff.ret].asMilliseconds),
                                  AtTimeHandler(time, func), R(30000))
                  ELSE setTimeout(hst, AtTimeHandler(time, func), R(30000))]

\* atTime(time, func): the heap and the host after the call
atTime(h, hst, time, func) ==
    LET now  == TimePoint_now(h, hst)
        diff == TimePoint_difference(now.heap, now.ret, time)
    IN  [heap |-> diff.heap,
         host |-> IF RLess(TimePeriod_asSeconds(diff.heap, diff.ret), R(30))
                  THEN setTimeout(hst, FuncHandler(func), diff.heap[diff.ret].asMilliseconds)
                  ELSE setTimeout(hst, AtTimeHandler(time, func), R(30000))]

IsInstant(h, time) ==
    time.kind = "Date" \/ (time.kind = "object" /\ h[time.value].type = "TimePoint")

\* mutant: a duration is counted from the epoch, not from now
wait_fromEpoch(h, hst, time) ==
    LET t == IF time.kind = "number"
             THEN Mapping(<<[unit |-> "milliseconds", amount |-> time.value]>>) ELSE time
        pending == [hst EXCEPT !.promise = "pending"]
    IN  IF IsInstant(h, t)
        THEN LET r == atTime(h, pending, t, "resolve")
             IN  [heap |-> r.heap, host |-> r.host, ret |-> "Promise", time |-> t]
        ELSE LET now == new_TimePoint_plain(h, Number(Zero))
                 sum == TimePoint_add(now.heap, now.ret, <<t>>)
                 r   == atTime(sum.heap, pending, Ref(sum.ret), "resolve")
             IN  [heap |-> r.heap, host |-> r.host, ret |-> "Promise", time |-> Ref(sum.ret)]

\* wait(time): the promise is created pending and its executor calls atTime
\* with resolve as the callback; time is the instant atTime was given
wait(h, hst, time) ==
    LET t == IF time.kind = "number"
             THEN Mapping(<<[unit |-> "milliseconds", amount |-> time.value]>>) ELSE time
        pending == [hst EXCEPT !.promise = "pending"]
    IN  IF IsInstant(h, t)
        THEN LET r == atTime(h, pending, t, "resolve")
             IN  [heap |-> r.heap, host |-> r.host, ret |-> "Promise", time |-> t]
        ELSE LET now == TimePoint_now(h, hst)
                 sum == TimePoint_add(now.heap, now.ret, <<t>>)
                 r   == atTime(sum.heap, pending, Ref(sum.ret), "resolve")
             IN  [heap |-> r.heap, host |-> r.host, ret |-> "Promise", time |-> Ref(sum.ret)]

\* func(): resolve settles a pending promise, with no value; the test callback
\* does nothing to the host
callFunc(hst, func) ==
    IF func = "resolve" /\ hst.promise = "pending"
    THEN [hst EXCEPT !.promise = "fulfilled"]
    ELSE hst

\* the first clock reading at which the host may fire the timer
DueAt(timer) ==
    LET ceil == -(MathFloor(RNeg(timer.delay)).n)
    IN  timer.armedAt + (IF ceil > 0 THEN ceil ELSE 0)

(***************************************************************************)
(* Inputs of the breakdown specification                                   *)
(***************************************************************************)
MaxUnits == 3

\* unit lists as a caller can write them: any order, repetitions allowed
UnitLists == UNION {[1..k -> TimeUnit] : k \in 0..MaxUnits}

\* 0, 0.5 ms, +-1.5 s, 1h30m15s, 26 h, 2 weeks
BreakdownDurations ==
    {R(0), Frac(1, 2), R(1500), R(-1500), R(5415000), R(93600000), R(1209600000)}

\* A negative duration broken down over weeks and microfortnights together leaves
\* about a week, in fifths of a millisecond, for the microfortnights: more than a
\* 32-bit numerator holds.  These calls are left out.
Representable(ms, units) ==
    ~(/\ units.isArray
      /\ RLess(ms, Zero)
      /\ {"weeks", "microfortnights"} \subseteq {units.list[i] : i \in DOMAIN units.list})

InitBreakdown ==
    /\ heap \in {<<PeriodObj(ms)>> : ms \in BreakdownDurations}
    /\ last = NoCall
    /\ host = NoHost

\* this.breakdown(units, options) and this.breakdown(options).  breakdown reads
\* its receiver and arguments only and changes nothing, so one call from every
\* initial state covers every call.
Breakdown(this, units, options) ==
    /\ last = NoCall
    /\ this \in Periods(heap)
    /\ Representable(heap[this].asMilliseconds, units)
    /\ LET run == breakdownRun(heap[this].asMilliseconds, units, options)
       IN  last' = [op |-> "breakdown", this |-> this,
                    args |-> [units |-> units, options |-> options],
                    ret |-> run.result, amounts |-> run.amounts, before |-> heap]
    /\ UNCHANGED <<heap, host>>

NextBreakdown ==
    /\ last = NoCall
    /\ \E this \in DOMAIN heap, units \in {UnitList(l) : l \in UnitLists} \cup {NoUnitList},
          options \in PartialOptions :
           Breakdown(this, units, options)

SpecBreakdown == InitBreakdown /\ [][NextBreakdown]_vars

(***************************************************************************)
(* Claims about breakdown, checked under SpecBreakdown                     *)
(***************************************************************************)
IsBreakdown == last.op = "breakdown"

LastMs == heap[last.this].asMilliseconds

LastList == last.args.units.list

LastOptions == last.args.options

Range(list) == {list[i] : i \in DOMAIN list}

Distinct(list) == \A i, j \in DOMAIN list : i # j => list[i] # list[j]

\* one fixed enumeration of a set of units, the same for every caller order
RECURSIVE SomeOrder(_)
SomeOrder(S) ==
    IF S = {} THEN <<>>
    ELSE LET u == CHOOSE x \in S : TRUE IN <<u>> \o SomeOrder(S \ {u})

DescendingDivisors(obj) ==
    \A i, j \in DOMAIN obj : i < j => RLess(divisors(obj[j].unit), divisors(obj[i].unit))

\* C1: over a list of distinct units the result of breakdown is the result for
\* one fixed ordering of the same unit set, whatever order the caller used (so
\* any two permutations give the same result), and its keys are in
\* descending-divisor order
C1_OrderIndependent ==
    (IsBreakdown /\ last.args.units.isArray /\ Distinct(LastList)) =>
        /\ last.ret = breakdown(LastMs, UnitList(SomeOrder(Range(LastList))), LastOptions)
        /\ DescendingDivisors(last.ret)

\* breakdown(["minutes", "days"]) of 1h30m15s is {days: 0, minutes: 90}
C1_Witness ==
    /\ IsBreakdown
    /\ last.args.units.isArray
    /\ LastList = <<"minutes", "days">>
    /\ LastOptions = NoOptions
    /\ LastMs = R(5415000)
    /\ last.ret = <<[unit |-> "days", amount |-> R(0)], [unit |-> "minutes", amount |-> R(90)]>>

ExplicitFull == [floatLast |-> FALSE, includeZero |-> TRUE]

\* C2 as stated: for every non-negative duration and every unit list, the entries
\* of breakdown(units, {includeZero: true, floatLast: false}) sum to asMilliseconds
C2_RoundTripEveryList ==
    (/\ IsBreakdown
     /\ last.args.units.isArray
     /\ LastOptions = ExplicitFull
     /\ ~RLess(LastMs, Zero)) =>
        SumEntries(last.ret, 1, Zero) = LastMs

\* C2 amended: for every non-negative duration that is a whole number of
\* milliseconds and every list of distinct units that contains milliseconds and
\* not microfortnights, the entries of
\* breakdown(units, {includeZero: true, floatLast: false}) sum to asMilliseconds
C2_RoundTripDownToMilliseconds ==
    (/\ IsBreakdown
     /\ last.args.units.isArray
     /\ LastOptions = ExplicitFull
     /\ ~RLess(LastMs, Zero)
     /\ LastMs.d = 1
     /\ Distinct(LastList)
     /\ "milliseconds" \in Range(LastList)
     /\ "microfortnights" \notin Range(LastList)) =>
        SumEntries(last.ret, 1, Zero) = LastMs

\* 1h30m15s over minutes, milliseconds, hours: {hours: 1, minutes: 30, milliseconds: 15000}
C2_Witness ==
    /\ IsBreakdown
    /\ last.args.units.isArray
    /\ LastOptions = ExplicitFull
    /\ LastMs = R(5415000)
    /\ LastList = <<"minutes", "milliseconds", "hours">>
    /\ last.ret = <<[unit |-> "hours", amount |-> R(1)],
                    [unit |-> "minutes", amount |-> R(30)],
                    [unit |-> "milliseconds", amount |-> R(15000)]>>
    /\ SumEntries(last.ret, 1, Zero) = LastMs

\* C3: with floatLast = true given, for every duration and every non-empty unit
\* list the entries of the result sum to asMilliseconds, zeros included or not
C3_FloatLastLosesNothing ==
    (/\ IsBreakdown
     /\ last.args.units.isArray
     /\ Len(LastList) > 0
     /\ "floatLast" \in DOMAIN LastOptions
     /\ LastOptions.floatLast) =>
        SumEntries(last.ret, 1, Zero) = LastMs

\* C3 holds of lists in which no unit is repeated
C3_DistinctUnitsLoseNothing ==
    (/\ IsBreakdown
     /\ last.args.units.isArray
     /\ Len(LastList) > 0
     /\ Distinct(LastList)
     /\ "floatLast" \in DOMAIN LastOptions
     /\ LastOptions.floatLast) =>
        SumEntries(last.ret, 1, Zero) = LastMs

\* C3 witness: 1h30m15s over hours, minutes with floatLast gives {hours: 1, minutes: 30.25}
C3_Witness ==
    /\ IsBreakdown
    /\ last.args.units.isArray
    /\ LastList = <<"hours", "minutes">>
    /\ LastOptions = [floatLast |-> TRUE]
    /\ LastMs = R(5415000)
    /\ last.ret = <<[unit |-> "hours", amount |-> R(1)],
                    [unit |-> "minutes", amount |-> Frac(121, 4)]>>

\* the option a call ends up with: the caller's if given, else the default,
\* which is withList when a unit list is passed and withoutList otherwise
Resolved(key, withList, withoutList) ==
    IF key \in DOMAIN LastOptions THEN LastOptions[key]
    ELSE IF last.args.units.isArray THEN withList ELSE withoutList

\* C4: without a unit list breakdown uses days, hours, minutes, seconds,
\* milliseconds with floatLast = true and includeZero = false; with a unit list
\* floatLast = false and includeZero = true; an option the caller gives replaces
\* the default of that option only
C4_Defaults ==
    IsBreakdown =>
        last.ret = breakdownLoop(
            LastMs,
            sortUnits(IF last.args.units.isArray THEN LastList
                      ELSE <<"days", "hours", "minutes", "seconds", "milliseconds">>),
            Resolved("floatLast", FALSE, TRUE),
            Resolved("includeZero", TRUE, FALSE)).result

\* breakdown({includeZero: true}) of 0.5 ms keeps floatLast = true:
\* {days: 0, hours: 0, minutes: 0, seconds: 0, milliseconds: 0.5}
C4_Witness ==
    /\ IsBreakdown
    /\ ~last.args.units.isArray
    /\ LastOptions = [includeZero |-> TRUE]
    /\ LastMs = Frac(1, 2)
    /\ last.ret = <<[unit |-> "days", amount |-> R(0)],
                    [unit |-> "hours", amount |-> R(0)],
                    [unit |-> "minutes", amount |-> R(0)],
                    [unit |-> "seconds", amount |-> R(0)],
                    [unit |-> "milliseconds", amount |-> Frac(1, 2)]>>

RequestedUnits ==
    IF last.args.units.isArray THEN Range(LastList)
    ELSE {"days", "hours", "minutes", "seconds", "milliseconds"}

\* C5: with includeZero the result has exactly one entry for every requested
\* unit; without it the result has exactly the requested units for which a
\* non-zero amount was computed
C5_KeySet ==
    IsBreakdown =>
        /\ Cardinality(Keys(last.ret)) = Len(last.ret)
        /\ IF Resolved("includeZero", TRUE, FALSE)
           THEN Keys(last.ret) = RequestedUnits
           ELSE Keys(last.ret) =
                    {last.amounts[i].unit :
                        i \in {j \in DOMAIN last.amounts : last.amounts[j].amount # Zero}}

\* hours(26) over days, hours, minutes with includeZero false is {days: 1, hours: 2}
C5_Witness ==
    /\ IsBreakdown
    /\ last.args.units.isArray
    /\ LastList = <<"days", "hours", "minutes">>
    /\ LastOptions = [includeZero |-> FALSE]
    /\ LastMs = R(93600000)
    /\ last.ret = <<[unit |-> "days", amount |-> R(1)], [unit |-> "hours", amount |-> R(2)]>>

(***************************************************************************)
(* The construction specification: one TimePeriod constructor call from an *)
(* empty heap, over every mapping of at most MaxEntries entries             *)
(***************************************************************************)
MaxEntries == 2

\* amounts: positive, negative, fractional
ConstructAmounts == {R(2), R(-1), Frac(3, 2)}

ConstructNumbers == {R(0), R(1337), R(-1500), Frac(1, 2)}

EntryLists ==
    UNION {{e \in [1..k -> [unit : TimeUnit, amount : ConstructAmounts]] :
               \A i, j \in 1..k : i # j => e[i].unit # e[j].unit} : k \in 0..MaxEntries}

\* the mapping of the equality test: 1 week 6 days 23:59:59 and 1000 ms
TwoWeeksMapping ==
    <<[unit |-> "weeks", amount |-> R(1)], [unit |-> "days", amount |-> R(6)],
      [unit |-> "hours", amount |-> R(23)], [unit |-> "minutes", amount |-> R(59)],
      [unit |-> "seconds", amount |-> R(59)], [unit |-> "milliseconds", amount |-> R(1000)]>>

\* the exact sum of the terms has a numerator within the range of the
\* arithmetic used here; larger inputs are left out
SumFits(terms) ==
    LcmDen(terms, 1) <= MaxInt \div (SumMag(terms, 1) + 1)

RepresentableEntries(entries) ==
    SumFits([i \in DOMAIN entries |-> RMul(divisors(entries[i].unit), entries[i].amount)])

InitConstruct ==
    /\ heap = <<>>
    /\ last = NoCall
    /\ host = NoHost

\* new TimePeriod(milliseconds) and new TimePeriod(breakdown)
NewTimePeriod(t) ==
    /\ last = NoCall
    /\ UNCHANGED host
    /\ t.kind = "mapping" => RepresentableEntries(t.value)
    /\ LET r == new_TimePeriod(heap, t)
       IN  /\ heap' = r.heap
           /\ last' = [op |-> "new TimePeriod", this |-> 0, args |-> t, ret |-> r.ret,
                       before |-> heap]

\* TimePeriod.weeks(n), ..., TimePeriod.milliseconds(n)
StaticTimePeriod(unit, n) ==
    /\ last = NoCall
    /\ UNCHANGED host
    /\ LET r == TimePeriod_static(heap, unit, n)
       IN  /\ heap' = r.heap
           /\ last' = [op |-> "static", this |-> 0, args |-> [unit |-> unit, n |-> n],
                       ret |-> r.ret, before |-> heap]

\* the inputs of the one call: none once it has been made
Once(inputs) == IF last = NoCall THEN inputs ELSE {}

NextConstruct ==
    \/ \E x \in Once(ConstructNumbers) : NewTimePeriod(Number(x))
    \/ \E e \in Once(EntryLists \cup {TwoWeeksMapping}) : NewTimePeriod(Mapping(e))
    \/ \E unit \in Once(StaticUnits), n \in ConstructAmounts : StaticTimePeriod(unit, n)

SpecConstruct == InitConstruct /\ [][NextConstruct]_vars

\* the divisors as the claim lists them
ClaimedDivisor(unit) ==
    CASE unit = "milliseconds"    -> R(1)
      [] unit = "seconds"         -> R(1000)
      [] unit = "minutes"         -> R(60000)
      [] unit = "hours"           -> R(3600000)
      [] unit = "days"            -> R(86400000)
      [] unit = "weeks"           -> R(604800000)
      [] unit = "microfortnights" -> Frac(12096, 10)

\* the sum over all units of amount * divisor, absent units counting 0, taken
\* in an order that does not depend on the order of the entries
RECURSIVE SumOverUnits(_, _)
SumOverUnits(entries, units) ==
    IF units = {} THEN Zero
    ELSE LET u == CHOOSE x \in units : TRUE
         IN  RAdd(IF u \in Keys(entries) THEN RMul(Get(entries, u), ClaimedDivisor(u)) ELSE Zero,
                  SumOverUnits(entries, units \ {u}))

Reverse(seq) == [i \in DOMAIN seq |-> seq[Len(seq) + 1 - i]]

\* C6: a TimePeriod built from a mapping has asMilliseconds equal to the sum of
\* amount * divisor over the entries, whatever their order; built from a number
\* m it has asMilliseconds m; a static constructor gives n * divisor of its unit
C6_Construction ==
    /\ last.op = "new TimePeriod" =>
          /\ last.ret \notin DOMAIN last.before
          /\ last.args.kind = "number" => heap[last.ret].asMilliseconds = last.args.value
          /\ last.args.kind = "mapping" =>
                /\ heap[last.ret].asMilliseconds = SumOverUnits(last.args.value, TimeUnit)
                /\ new_TimePeriod(last.before, Mapping(Reverse(last.args.value))).heap = heap
    /\ last.op = "static" =>
          /\ heap[last.ret].asMilliseconds = RMul(last.args.n, ClaimedDivisor(last.args.unit))
          /\ new_TimePeriod(last.before,
                 Mapping(<<[unit |-> last.args.unit, amount |-> last.args.n]>>)).heap = heap

\* {weeks: 1, days: 6, hours: 23, minutes: 59, seconds: 59, milliseconds: 1000}
\* has the asMilliseconds of weeks(2)
C6_Witness ==
    /\ last.op = "new TimePeriod"
    /\ last.args = Mapping(TwoWeeksMapping)
    /\ heap[last.ret].asMilliseconds = R(2 * 604800000)
    /\ TimePeriod_static(<<>>, "weeks", R(2)).heap = heap

(***************************************************************************)
(* The method specification: two periods and a point are constructed, then *)
(* a chain of at most MaxChain calls is made, the first on any of the      *)
(* objects, each later one on the object the call before returned.         *)
(* Arguments are any objects of the heap, mappings and Dates.              *)
(***************************************************************************)
MaxChain == 2

\* no value of the chain exceeds this many milliseconds
MaxMs == 700000000

\* a = new TimePeriod(..), b = new TimePeriod(..), t = new TimePoint(a)
Init ==
    /\ heap \in {<<PeriodObj(a), PeriodObj(b), PointObj(1)>> :
                    a \in {R(-1500), R(5400000)}, b \in {R(259200000), Frac(1, 2)}}
    /\ last = NoCall
    /\ host = NoHost

ChainDepth == IF last = NoCall THEN 0 ELSE last.depth

Receivers == IF last = NoCall THEN DOMAIN heap
             ELSE IF last.isObject THEN {last.ret} ELSE {}

ArgMappings ==
    {<<[unit |-> "days", amount |-> R(4)]>>,
     <<[unit |-> "seconds", amount |-> Frac(-1, 2)], [unit |-> "milliseconds", amount |-> R(2)]>>}

PeriodArgs == {Ref(i) : i \in Periods(heap)} \cup {Mapping(e) : e \in ArgMappings}

\* add(), add(x), add(period, mapping), add(mapping, period)
ArgLists ==
    {<<>>} \cup {<<x>> : x \in PeriodArgs}
    \cup {<<Ref(i), Mapping(e)>> : i \in Periods(heap), e \in ArgMappings}
    \cup {<<Mapping(e), Ref(i)>> : i \in Periods(heap), e \in ArgMappings}

Scalars == {R(3), R(-1), R(-4), Frac(1, 2)}

PointArgs == {Ref(i) : i \in Points(heap)} \cup {DateOf(R(0)), DateOf(R(5400000))}

\* the exact sum of the terms stays within MaxMs
Bounded(terms) == SumMag(terms, 1) <= MaxMs \div LcmDen(terms, 1)

ProductBounded(a, b) == Mag(a) <= (MaxMs \div Mag(b)) \div (a.d * b.d)

\* breakdown of halves of a millisecond at most
BreakdownFits(ms) == ms.d <= 2

ArgTerms(periods) == [i \in DOMAIN periods |-> periodMs(heap, periods[i])]

Call(op, this, args, r, isObject) ==
    /\ heap' = r.heap
    /\ UNCHANGED host
    /\ last' = [op |-> op, this |-> this, args |-> args, ret |-> r.ret, before |-> heap,
                isObject |-> isObject, depth |-> ChainDepth + 1, prev |-> last]

PeriodAdd(this, periods) ==
    /\ Bounded(<<heap[this].asMilliseconds>> \o ArgTerms(periods))
    /\ Call("add", this, periods, TimePeriod_add(heap, this, periods), TRUE)

PeriodSubtract(this, period) ==
    /\ Bounded(<<heap[this].asMilliseconds, periodMs(heap, period)>>)
    /\ Call("subtract", this, period, TimePeriod_subtract(heap, this, period), TRUE)

PeriodMultiply(this, by) ==
    /\ ProductBounded(heap[this].asMilliseconds, by)
    /\ Call("multiply", this, by, TimePeriod_multiply(heap, this, by), TRUE)

PeriodDivide(this, by) ==
    /\ ProductBounded(heap[this].asMilliseconds, RInv(by))
    /\ Call("divide", this, by, TimePeriod_divide(heap, this, by), TRUE)

PeriodEquals(this, period) ==
    Call("equals", this, Ref(period), TimePeriod_equals(heap, this, period), FALSE)

PeriodAbs(this) ==
    Call("abs", this, <<>>, TimePeriod_abs(heap, this), TRUE)

PeriodBreakdown(this, units) ==
    /\ BreakdownFits(heap[this].asMilliseconds)
    /\ Call("breakdown", this, units,
            [heap |-> heap, ret |-> breakdown(heap[this].asMilliseconds, units, NoOptions)], FALSE)

PeriodToJSON(this) ==
    Call("toJSON", this, <<>>, TimePeriod_toJSON(heap, this), FALSE)

PointAdd(this, periods) ==
    /\ Bounded(<<pointMs(heap, this)>> \o ArgTerms(periods))
    /\ Call("add", this, periods, TimePoint_add(heap, this, periods), TRUE)

PointSubtract(this, period) ==
    /\ Bounded(<<pointMs(heap, this), periodMs(heap, period)>>)
    /\ Call("subtract", this, period, TimePoint_subtract(heap, this, period), TRUE)

PointDifference(this, time) ==
    /\ Bounded(<<whenMs(heap, time), pointMs(heap, this)>>)
    /\ Call("difference", this, time, TimePoint_difference(heap, this, time), TRUE)

PointEquals(this, point) ==
    Call("equals", this, point, TimePoint_equals(heap, this, point), FALSE)

PointCompare(this, point) ==
    Call("compare", this, point, TimePoint_compare(heap, this, point), FALSE)

PointIsBefore(this, when) ==
    Call("isBefore", this, when, TimePoint_isBefore(heap, this, when), FALSE)

PointIsAfter(this, when) ==
    Call("isAfter", this, when, TimePoint_isAfter(heap, this, when), FALSE)

PointToJSON(this) ==
    /\ BreakdownFits(pointMs(heap, this))
    /\ Call("toJSON", this, <<>>, TimePoint_toJSON(heap, this), FALSE)

\* the objects the next call of the chain can be made on
PeriodReceivers == IF ChainDepth < MaxChain THEN Receivers \cap Periods(heap) ELSE {}

PointReceivers == IF ChainDepth < MaxChain THEN Receivers \cap Points(heap) ELSE {}

Next ==
    \/ \E this \in PeriodReceivers, periods \in ArgLists : PeriodAdd(this, periods)
    \/ \E this \in PeriodReceivers, period \in PeriodArgs : PeriodSubtract(this, period)
    \/ \E this \in PeriodReceivers, by \in Scalars : PeriodMultiply(this, by)
    \/ \E this \in PeriodReceivers, by \in Scalars : PeriodDivide(this, by)
    \/ \E this \in PeriodReceivers, period \in Periods(heap) : PeriodEquals(this, period)
    \/ \E this \in PeriodReceivers : PeriodAbs(this)
    \/ \E this \in PeriodReceivers, units \in {NoUnitList, UnitList(<<"seconds", "hours">>)} :
          PeriodBreakdown(this, units)
    \/ \E this \in PeriodReceivers : PeriodToJSON(this)
    \/ \E this \in PointReceivers, periods \in ArgLists : PointAdd(this, periods)
    \/ \E this \in PointReceivers, period \in PeriodArgs : PointSubtract(this, period)
    \/ \E this \in PointReceivers, time \in PointArgs : PointDifference(this, time)
    \/ \E this \in PointReceivers, point \in PointArgs : PointEquals(this, point)
    \/ \E this \in PointReceivers, point \in PointArgs : PointCompare(this, point)
    \/ \E this \in PointReceivers, when \in PointArgs : PointIsBefore(this, when)
    \/ \E this \in PointReceivers, when \in PointArgs : PointIsAfter(this, when)
    \/ \E this \in PointReceivers : PointToJSON(this)

Spec == Init /\ [][Next]_vars

(***************************************************************************)
(* Claims about the methods, checked under Spec                            *)
(***************************************************************************)
\* the millisecond scalar of a TimePeriod or TimePoint of heap h
ScalarOf(h, i) == IF h[i].type = "TimePeriod" THEN h[i].asMilliseconds ELSE pointMs(h, i)

\* the normalized millisecond value of an argument: a TimePeriod's scalar, or
\* the sum of amount * divisor over a mapping
ArgValue(h, x) ==
    IF x.kind = "object" THEN h[x.value].asMilliseconds ELSE SumOverUnits(x.value, TimeUnit)

RECURSIVE SumArgs(_, _, _)
SumArgs(h, xs, i) ==
    IF i > Len(xs) THEN Zero ELSE RAdd(ArgValue(h, xs[i]), SumArgs(h, xs, i + 1))

SevenDays == R(7 * 86400000)

\* C7: add returns a new object of the receiver's type whose scalar is the
\* receiver's plus the sum of the values of all arguments; subtract returns a
\* new object whose scalar is the receiver's minus the argument's; subtracting
\* x from the result of add(x) gives an object that equals the first receiver
C7_AddSubtractExact ==
    /\ last.op = "add" =>
          /\ last.ret \notin DOMAIN last.before
          /\ heap[last.ret].type = heap[last.this].type
          /\ ScalarOf(heap, last.ret) =
                RAdd(ScalarOf(last.before, last.this), SumArgs(last.before, last.args, 1))
    /\ last.op = "subtract" =>
          /\ last.ret \notin DOMAIN last.before
          /\ heap[last.ret].type = heap[last.this].type
          /\ ScalarOf(heap, last.ret) =
                RSub(ScalarOf(last.before, last.this), ArgValue(last.before, last.args))
          /\ (last.prev.op = "add" /\ last.prev.args = <<last.args>>) =>
                IF heap[last.ret].type = "TimePeriod"
                THEN TimePeriod_equals(heap, last.ret, last.prev.this).ret
                ELSE TimePoint_equals(heap, last.ret, Ref(last.prev.this)).ret

\* instant.add(TimePeriod.days(3), {days: 4}) has advanced by 7 days
C7_Witness ==
    /\ last.op = "add"
    /\ heap[last.this].type = "TimePoint"
    /\ Len(last.args) = 2
    /\ last.args[1].kind = "object"
    /\ heap[last.args[1].value] = TimePeriod_static(<<>>, "days", R(3)).heap[1]
    /\ last.args[2] = Mapping(<<[unit |-> "days", amount |-> R(4)]>>)
    /\ RSub(pointMs(heap, last.ret), pointMs(heap, last.this)) = SevenDays

\* d.add(x).subtract(x) for a TimePeriod d and a mapping x
C7_RoundTripWitness ==
    /\ last.op = "subtract"
    /\ last.prev.op = "add"
    /\ last.prev.args = <<last.args>>
    /\ last.args.kind = "mapping"
    /\ heap[last.ret].type = "TimePeriod"
    /\ last.ret # last.prev.this
    /\ heap[last.ret] = heap[last.prev.this]

C9_Abs ==
    last.op = "abs" =>
        /\ IF RLess(last.before[last.this].asMilliseconds, Zero)
           THEN /\ last.ret \notin DOMAIN last.before
                /\ heap[last.ret] = PeriodObj(RNeg(last.before[last.this].asMilliseconds))
           ELSE /\ last.ret = last.this
                /\ heap = last.before
        /\ ~RLess(heap[last.ret].asMilliseconds, Zero)
        /\ LET again == TimePeriod_abs(heap, last.ret)
           IN  TimePeriod_equals(again.heap, again.ret, last.ret).ret

\* d.abs().abs() for a negative d: a new object first, then that same object
C9_Witness ==
    /\ last.op = "abs"
    /\ last.prev.op = "abs"
    /\ RLess(heap[last.prev.this].asMilliseconds, Zero)
    /\ last.prev.ret # last.prev.this
    /\ last.this = last.prev.ret
    /\ last.ret = last.this

(***************************************************************************)
(* The descriptor specification: one TimePoint constructor call from an    *)
(* empty heap, over calendar descriptors with valid, out-of-range and      *)
(* non-integral fields of either sign                                      *)
(***************************************************************************)
DescriptorYears == {R(0), R(1900), R(2000), R(2020), R(2021), Frac(4043, 2), Frac(-4041, 2)}

DescriptorMonths == {R(0), R(2), R(4), R(10), R(13), Frac(3, 2), Frac(-3, 2)}

DescriptorDays == {R(0), R(29), R(30), R(31), R(32), Frac(3, 2), Frac(-3, 2)}

DescriptorHours == {R(19), R(24), Frac(1, 2), Frac(-1, 2)}

DescriptorMinutes == {R(30), R(60), Frac(1, 2), Frac(-1, 2)}

DescriptorSeconds == {R(0), Frac(11, 2), Frac(59999, 1000), R(60), Frac(-1, 2)}

Descriptors ==
    [year : DescriptorYears, month : DescriptorMonths, day : DescriptorDays,
     hour : DescriptorHours, minute : DescriptorMinutes, second : DescriptorSeconds,
     timezone : {<<"G", "M", "T">>}]

InitDescriptor ==
    /\ heap = <<>>
    /\ last = NoCall
    /\ host = NoHost

\* new TimePoint({year, month, day, hour, minute, second, timezone})
NewTimePoint(input) ==
    /\ last = NoCall
    /\ UNCHANGED host
    /\ LET r == new_TimePoint(heap, input)
       IN  /\ heap' = r.heap
           /\ last' = [op |-> "new TimePoint", this |-> 0, args |-> input, ret |-> r.ret,
                       threw |-> r.threw, before |-> heap]

NextDescriptor ==
    \E d \in Once(Descriptors) : NewTimePoint(Descriptor(d))

SpecDescriptor == InitDescriptor /\ [][NextDescriptor]_vars

InvalidDescriptorError ==
    [type |-> "Error",
     message |-> "Invalid time descriptor (non-integral values are only allowed for 'second')"]

NonIntegral(v) == v.d # 1

IntegralFields(d) == {d.year, d.month, d.day, d.hour, d.minute}

\* C10: the constructor throws the invalid-descriptor Error whenever any of
\* year, month, day, hour, minute is non-integral, negative values included,
\* and never because of a non-integral second
C10_NonIntegralRejected ==
    last.op = "new TimePoint" =>
        LET d == last.args.value
        IN  /\ (\E v \in IntegralFields(d) : NonIntegral(v)) => last.threw = InvalidDescriptorError
            /\ (\A v \in IntegralFields(d) : ~NonIntegral(v)) => last.threw # InvalidDescriptorError

\* what the constructor does: the Error is thrown exactly when one of the five
\* fields has a fractional part and is positive
C10_PositiveNonIntegralRejected ==
    last.op = "new TimePoint" =>
        LET d == last.args.value
        IN  last.threw = InvalidDescriptorError
            <=> \E v \in IntegralFields(d) : NonIntegral(v) /\ RLess(Zero, v)

\* a descriptor whose only non-integral field is a negative year is accepted:
\* nothing is thrown and a TimePoint is returned
C10_NegativeAccepted ==
    /\ last.op = "new TimePoint"
    /\ NonIntegral(last.args.value.year) /\ RLess(last.args.value.year, Zero)
    /\ last.threw.type = NoError
    /\ last.ret \in Points(heap)

\* a negative non-integral month is reported as a RangeError
C10_NegativeMonthRangeError ==
    /\ last.op = "new TimePoint"
    /\ NonIntegral(last.args.value.month) /\ RLess(last.args.value.month, Zero)
    /\ \A v \in IntegralFields(last.args.value) \ {last.args.value.month} : ~NonIntegral(v)
    /\ last.threw = [type |-> "RangeError", message |-> "Invalid month"]

\* the number of days of a month of the Gregorian calendar
GregorianLeapYear(y) == y % 4 = 0 /\ (y % 100 # 0 \/ y % 400 = 0)

GregorianDays(y, m) ==
    IF m = 2 THEN (IF GregorianLeapYear(y) THEN 29 ELSE 28)
    ELSE IF m \in {4, 6, 9, 11} THEN 30 ELSE 31

InvalidDay == [type |-> "RangeError", message |-> "Invalid day"]

DayCheckReached(d) ==
    /\ \A v \in IntegralFields(d) : ~NonIntegral(v)
    /\ d.month.n \in 1..12

\* C11: for a descriptor with integral fields and month in 1..12 the
\* constructor throws the day RangeError exactly when day < 1 or day exceeds
\* the Gregorian number of days of that month in that year, for every year
C11_DayRange ==
    last.op = "new TimePoint" =>
        LET d == last.args.value
        IN  DayCheckReached(d) =>
                (last.threw = InvalidDay
                    <=> (d.day.n < 1 \/ d.day.n > GregorianDays(d.year.n, d.month.n)))

\* the same for every year outside 0..99
C11_DayRangeFourDigitYears ==
    last.op = "new TimePoint" =>
        LET d == last.args.value
        IN  (DayCheckReached(d) /\ d.year.n \notin 0..99) =>
                (last.threw = InvalidDay
                    <=> (d.day.n < 1 \/ d.day.n > GregorianDays(d.year.n, d.month.n)))

\* 29 February of the year 0, a Gregorian leap year, is rejected
C11_YearZeroRejected ==
    /\ last.op = "new TimePoint"
    /\ DayCheckReached(last.args.value)
    /\ last.args.value.year = R(0) /\ last.args.value.month = R(2)
    /\ last.args.value.day = R(29)
    /\ GregorianDays(0, 2) = 29
    /\ last.threw = InvalidDay

\* 2020-02-29 is accepted, nothing thrown
C11_LeapDayAccepted ==
    /\ last.op = "new TimePoint"
    /\ last.args.value.year = R(2020) /\ last.args.value.month = R(2)
    /\ last.args.value.day = R(29)
    /\ last.threw.type = NoError
    /\ last.ret \in Points(heap)

AllIntegral(d) == \A v \in IntegralFields(d) : ~NonIntegral(v)

\* month outside 1..12, hour outside [0, 24), minute or second outside [0, 60)
OutOfBounds(d) ==
    \/ d.month.n < 1 \/ d.month.n > 12
    \/ d.hour.n < 0 \/ d.hour.n >= 24
    \/ d.minute.n < 0 \/ d.minute.n >= 60
    \/ RLess(d.second, Zero) \/ ~RLess(d.second, R(60))

DayInBounds(d) == d.day.n >= 1 /\ d.day.n <= GregorianDays(d.year.n, d.month.n)

\* C12: a descriptor with integral year, month, day, hour and minute throws a
\* RangeError whenever month, hour, minute or second is out of bounds (hour 24,
\* minute 60 and second 60 included), and throws nothing when these and the
\* day are within bounds, second possibly fractional
C12_Bounds ==
    last.op = "new TimePoint" =>
        LET d == last.args.value
        IN  AllIntegral(d) =>
                /\ OutOfBounds(d) => last.threw.type = "RangeError"
                /\ (~OutOfBounds(d) /\ DayInBounds(d)) => last.threw.type = NoError

\* the same for every year outside 0..99
C12_BoundsFourDigitYears ==
    last.op = "new TimePoint" =>
        LET d == last.args.value
        IN  (AllIntegral(d) /\ d.year.n \notin 0..99) =>
                /\ OutOfBounds(d) => last.threw.type = "RangeError"
                /\ (~OutOfBounds(d) /\ DayInBounds(d)) => last.threw.type = NoError

\* 0000-02-29 19:30:59.999, every field within bounds, is rejected
C12_InBoundsRejected ==
    /\ last.op = "new TimePoint"
    /\ AllIntegral(last.args.value)
    /\ ~OutOfBounds(last.args.value) /\ DayInBounds(last.args.value)
    /\ last.args.value.second = Frac(59999, 1000)
    /\ last.threw = InvalidDay

\* second 59.999 passes and second 60 is a RangeError
C12_SecondAccepted ==
    /\ last.op = "new TimePoint"
    /\ last.args.value.second = Frac(59999, 1000)
    /\ last.threw.type = NoError
    /\ last.ret \in Points(heap)
    /\ LET e == new_TimePoint(last.before,
                    Descriptor([last.args.value EXCEPT !.second = R(60)])).threw
       IN  e = [type |-> "RangeError", message |-> "Invalid second"]

(***************************************************************************)
(* The TimePoint construction specification: a TimePeriod exists, then one *)
(* TimePoint constructor call is made with an input of any of the shapes   *)
(***************************************************************************)
InitNewTimePoint ==
    /\ heap \in {<<PeriodObj(ms)>> : ms \in ConstructNumbers}
    /\ last = NoCall
    /\ host = NoHost

\* "1992-11-24 13:37 GMT", "2020-10-31 19:30 GMT", abbreviated, and a string
\* that is no date
DateStrings == {<<"1", "9", "9", "2">>, <<"2", "0", "2", "0">>, <<"x">>}

EpochMappings == {e \in EntryLists : RepresentableEntries(e)}

\* objects with a unixEpoch key next to calendar fields that are not valid
EpochWithCalendarFields ==
    {[unixEpoch |-> e, year |-> Frac(4043, 2), month |-> R(13), day |-> R(0),
      hour |-> R(24), minute |-> R(60), second |-> R(60), timezone |-> <<"G", "M", "T">>] :
        e \in {<<>>, <<[unit |-> "seconds", amount |-> R(1635706800 \div 1000)]>>}}

\* 2020-10-31 19:30:00 GMT and descriptors that differ from it in one field
BaseDescriptor ==
    [year |-> R(2020), month |-> R(10), day |-> R(31), hour |-> R(19), minute |-> R(30),
     second |-> R(0), timezone |-> <<"G", "M", "T">>]

TestDescriptors ==
    {BaseDescriptor,
     [BaseDescriptor EXCEPT !.year = Frac(10107, 5)],
     [BaseDescriptor EXCEPT !.month = R(0)],
     [BaseDescriptor EXCEPT !.second = R(-10)],
     [BaseDescriptor EXCEPT !.month = R(2), !.day = R(30)],
     [BaseDescriptor EXCEPT !.hour = R(24)],
     [BaseDescriptor EXCEPT !.minute = R(60)]}

NextNewTimePoint ==
    \/ \E str \in Once(DateStrings) : NewTimePoint(String(str))
    \/ \E ms \in Once(ConstructNumbers) : NewTimePoint(DateOf(ms))
    \/ \E ms \in Once(ConstructNumbers) : NewTimePoint(Number(ms))
    \/ \E p \in Once(Periods(heap)) : NewTimePoint(Ref(p))
    \/ \E e \in Once(EpochMappings) : NewTimePoint(EpochDescription(e))
    \/ \E o \in Once(EpochWithCalendarFields) : NewTimePoint(PlainObject(o))
    \/ \E d \in Once(TestDescriptors) : NewTimePoint(Descriptor(d))

SpecNewTimePoint == InitNewTimePoint /\ [][NextNewTimePoint]_vars

HasUnixEpoch(x) == x.kind = "plain" /\ "unixEpoch" \in DOMAIN x.value

\* C13: a string gives the host's parse of it, a Date its getTime(), a number n
\* gives n, a TimePeriod its own millisecond value, an object with a unixEpoch
\* key the value of new TimePeriod of that mapping whatever else it holds; only
\* a calendar descriptor can throw, and every other call returns a new TimePoint
C13_InputShapes ==
    last.op = "new TimePoint" =>
        LET x == last.args
        IN  /\ last.threw.type # NoError => (x.kind = "plain" /\ ~HasUnixEpoch(x))
            /\ last.threw.type = NoError =>
                  /\ last.ret \in Points(heap) \ DOMAIN last.before
                  /\ \A i \in DOMAIN last.before : heap[i] = last.before[i]
                  /\ x.kind = "string" => pointMs(heap, last.ret) = Date_parse(x.value)
                  /\ x.kind \in {"Date", "number"} => pointMs(heap, last.ret) = x.value
                  /\ x.kind = "object" =>
                        pointMs(heap, last.ret) = last.before[x.value].asMilliseconds
                  /\ HasUnixEpoch(x) =>
                        pointMs(heap, last.ret) = SumOverUnits(x.value.unixEpoch, TimeUnit)

\* {unixEpoch: {seconds: 1635706}, year: 2021.5, month: 13, ...} is accepted
\* and gives 1635706000 ms
C13_Witness ==
    /\ last.op = "new TimePoint"
    /\ HasUnixEpoch(last.args)
    /\ "month" \in DOMAIN last.args.value
    /\ descriptorError(last.args.value).type = "Error"
    /\ last.threw.type = NoError
    /\ pointMs(heap, last.ret) = R(1635706000)

(***************************************************************************)
(* Claims about TimePoint comparison, difference and serialization,        *)
(* checked under Spec                                                      *)
(***************************************************************************)
IsPointCall(ops) ==
    /\ last # NoCall
    /\ last.op \in ops
    /\ heap[last.this].type = "TimePoint"

\* the millisecond value of a TimePoint or Date argument
WhenValue(h, x) == IF x.kind = "Date" THEN x.value ELSE ScalarOf(h, x.value)

BoolCount(bs) == Cardinality({i \in DOMAIN bs : bs[i]})

\* C14: for a point a and a point or Date b, exactly one of a.isBefore(b),
\* a.equals(b), a.isAfter(b) holds, by the order of the millisecond values;
\* a.compare(b) is -1, 0, 1 in these cases; a Date with b's value gives the same
\* answers as b; and b.compare(a) is -a.compare(b)
C14_TotalOrder ==
    IsPointCall({"isBefore", "isAfter", "equals", "compare"}) =>
        LET a  == last.this
            b  == last.args
            va == ScalarOf(heap, a)
            vb == WhenValue(heap, b)
            lt == TimePoint_isBefore(heap, a, b).ret
            eq == TimePoint_equals(heap, a, b).ret
            gt == TimePoint_isAfter(heap, a, b).ret
            c  == TimePoint_compare(heap, a, b).ret
        IN  /\ last.ret = (CASE last.op = "isBefore" -> lt [] last.op = "equals" -> eq
                             [] last.op = "isAfter" -> gt [] last.op = "compare" -> c)
            /\ BoolCount(<<lt, eq, gt>>) = 1
            /\ lt <=> RLess(va, vb)
            /\ eq <=> va = vb
            /\ gt <=> RLess(vb, va)
            /\ c = (IF lt THEN -1 ELSE IF eq THEN 0 ELSE 1)
            /\ b.kind = "object" =>
                  /\ TimePoint_compare(heap, b.value, Ref(a)).ret = -c
                  /\ TimePoint_compare(heap, a, DateOf(vb)).ret = c
                  /\ TimePoint_isBefore(heap, a, DateOf(vb)).ret = lt
                  /\ TimePoint_isAfter(heap, a, DateOf(vb)).ret = gt
                  /\ TimePoint_equals(heap, a, DateOf(vb)).ret = eq

\* a.subtract(x).compare(a) is -1 for a positive x
C14_Witness ==
    /\ IsPointCall({"compare"})
    /\ last.prev.op = "subtract"
    /\ last.args = Ref(last.prev.this)
    /\ last.this # last.prev.this
    /\ last.ret = -1
    /\ TimePoint_isBefore(heap, last.this, last.args).ret
    /\ TimePoint_compare(heap, last.prev.this, Ref(last.this)).ret = 1

\* C15: a.difference(b) is a new TimePeriod of b's millisecond value minus
\* a's, for b a TimePoint or a Date: positive when b is later, negative when b
\* is earlier; adding it to a gives a point that equals b
C15_Difference ==
    IsPointCall({"difference"}) =>
        LET a  == last.this
            b  == last.args
            va == ScalarOf(last.before, a)
            vb == WhenValue(last.before, b)
            r  == heap[last.ret]
            sum == TimePoint_add(heap, a, <<Ref(last.ret)>>)
        IN  /\ last.ret \notin DOMAIN last.before
            /\ r = PeriodObj(RSub(vb, va))
            /\ RLess(va, vb) <=> RLess(Zero, r.asMilliseconds)
            /\ RLess(vb, va) <=> RLess(r.asMilliseconds, Zero)
            /\ TimePoint_equals(sum.heap, sum.ret, b).ret

\* a.add(x).difference(a) is negative for a positive x
C15_Witness ==
    /\ IsPointCall({"difference"})
    /\ last.prev.op = "add"
    /\ last.args = Ref(last.prev.this)
    /\ last.this # last.prev.this
    /\ RLess(heap[last.ret].asMilliseconds, Zero)
    /\ RLess(pointMs(heap, last.prev.this), pointMs(heap, last.this))

\* C16: TimePeriod.toJSON is {milliseconds: asMilliseconds} and a TimePeriod
\* constructed from it equals the receiver; TimePoint.toJSON is {unixEpoch:
\* the default breakdown of unixEpoch} and a TimePoint constructed from it has
\* the receiver's millisecond value
C16_JSONRoundTrip ==
    (last # NoCall /\ last.op = "toJSON") =>
        IF heap[last.this].type = "TimePeriod"
        THEN LET back == new_TimePeriod(heap, Mapping(last.ret))
             IN  /\ last.ret = <<[unit |-> "milliseconds",
                                  amount |-> heap[last.this].asMilliseconds]>>
                 /\ TimePeriod_equals(back.heap, back.ret, last.this).ret
        ELSE LET back == new_TimePoint(heap, PlainObject(last.ret))
             IN  /\ DOMAIN last.ret = {"unixEpoch"}
                 /\ last.ret.unixEpoch = breakdown(pointMs(heap, last.this), NoUnitList, NoOptions)
                 /\ back.threw.type = NoError
                 /\ pointMs(back.heap, back.ret) = pointMs(heap, last.this)

\* a point before the epoch: {unixEpoch: {days: -1, hours: 23, ...}} gives it back
C16_Witness ==
    /\ IsPointCall({"toJSON"})
    /\ RLess(pointMs(heap, last.this), Zero)
    /\ Get(last.ret.unixEpoch, "days") = R(-1)
    /\ pointMs(new_TimePoint(heap, PlainObject(last.ret)).heap, Len(heap) + 2)
          = pointMs(heap, last.this)

\* the epoch itself: toJSON is {unixEpoch: {}}
C16_EpochWitness ==
    /\ IsPointCall({"toJSON"})
    /\ pointMs(heap, last.this) = Zero
    /\ last.ret.unixEpoch = <<>>

(***************************************************************************)
(* The scheduling specification: the clock reads StartClock; a target      *)
(* TimePoint and a TimePeriod of the same distance exist; atTime or wait   *)
(* is called once; then the clock advances and the host fires each armed   *)
(* timer at or after the reading its delay asks for, as late as it likes.  *)
(***************************************************************************)
StartClock == 1000000

\* distance of the target from the call, in ms: past, now, the tests' 200 ms,
\* either side of the 30 s threshold, and 65 s
Offsets == {-5000, 0, 200, 29999, 30000, 65000}

\* how long after its due reading a timer fires, in ms
Lateness == {0, 7, 6000, 40000}

InitSchedule ==
    /\ \E off \in Offsets :
          heap = <<PeriodObj(R(StartClock + off)), PointObj(1), PeriodObj(R(off))>>
    /\ last = NoCall
    /\ host = [NoHost EXCEPT !.clock = StartClock]

TargetPoint == 2

DistancePeriod == 3

\* atTime(time, checkFn)
AtTime(time) ==
    /\ last = NoCall
    /\ LET r == atTime(heap, host, time, "checkFn")
       IN  /\ heap' = r.heap
           /\ host' = r.host
           /\ last' = [op |-> "atTime", args |-> time, ret |-> "undefined",
                       target |-> whenMs(heap, time), at |-> host.clock, before |-> heap]

\* wait(time)
Wait(time) ==
    /\ last = NoCall
    /\ LET r == wait(heap, host, time)
       IN  /\ heap' = r.heap
           /\ host' = r.host
           /\ last' = [op |-> "wait", args |-> time, ret |-> r.ret,
                       target |-> whenMs(r.heap, r.time), at |-> host.clock, before |-> heap]

\* the clock advances to a reading at which an armed timer is due or late
Tick(clock) ==
    /\ clock > host.clock
    /\ \E timer \in host.timers, late \in Lateness : clock = DueAt(timer) + late
    /\ host' = [host EXCEPT !.clock = clock]
    /\ UNCHANGED <<heap, last>>

\* the host fires an armed timer, once, not before its delay has elapsed: the
\* callback is called, or atTime is called again with the same time and func
Fire(timer) ==
    /\ timer \in host.timers
    /\ host.clock >= DueAt(timer)
    /\ LET fired == [host EXCEPT !.timers = @ \ {timer},
                                 !.log = Append(@, [run |-> timer.handler.run,
                                                    func |-> timer.handler.func,
                                                    at |-> host.clock,
                                                    late |-> host.clock - DueAt(timer)])]
       IN  IF timer.handler.run = "func"
           THEN /\ host' = callFunc(fired, timer.handler.func)
                /\ UNCHANGED heap
           ELSE LET r == atTime(heap, fired, timer.handler.time, timer.handler.func)
                IN  /\ host' = r.host
                    /\ heap' = r.heap
    /\ UNCHANGED last

ClockReadings == {DueAt(timer) + late : timer \in host.timers, late \in Lateness}

NextSchedule ==
    \/ \E time \in Once({Ref(TargetPoint), DateOf(pointMs(heap, TargetPoint))}) : AtTime(time)
    \/ \E time \in Once({Ref(TargetPoint), DateOf(pointMs(heap, TargetPoint)),
                         Ref(DistancePeriod), Number(heap[DistancePeriod].asMilliseconds),
                         Mapping(<<[unit |-> "seconds",
                                    amount |-> TimePeriod_asSeconds(heap, DistancePeriod)]>>)}) :
          Wait(time)
    \/ \E clock \in ClockReadings : Tick(clock)
    \/ \E timer \in host.timers : Fire(timer)

SpecSchedule == InitSchedule /\ [][NextSchedule]_vars

\* a timer is armed and its delay has elapsed: Fire is enabled
TimerDue == \E timer \in host.timers : host.clock >= DueAt(timer)

\* the clock keeps advancing while a timer is armed, and a timer that is due
\* fires. The second condition is WF_vars(\E timer \in host.timers : Fire(timer))
\* written out, with TimerDue for ENABLED <<Fire>>_vars (Fire removes the timer,
\* so it never stutters)
FairSpecSchedule ==
    /\ SpecSchedule
    /\ WF_vars(\E clock \in ClockReadings : Tick(clock))
    /\ \/ []<>~TimerDue
       \/ []<><<\E timer \in host.timers : Fire(timer)>>_vars

\* the positions in the log at which the callback was called
FuncCalls == {i \in DOMAIN host.log : host.log[i].run = "func"}

Reanchors == {i \in DOMAIN host.log : host.log[i].run = "atTime"}

\* C17: after one atTime call, the callback is never called at a clock reading
\* before the target, however late the timers fire
C17_NotBeforeTarget ==
    last.op = "atTime" =>
        \A i \in FuncCalls : ~RLess(R(host.log[i].at), last.target)

\* the callback was called exactly at the target after two timers that fired late
C17_Witness ==
    /\ last.op = "atTime"
    /\ Len(host.log) = 3
    /\ host.log[3].run = "func"
    /\ R(host.log[3].at) = last.target
    /\ host.log[1].late > 0 /\ host.log[2].late > 0

\* the lateness of a timer the host counts as on time, in ms
Tolerance == 10

WithinTolerance == \A i \in DOMAIN host.log : host.log[i].late <= Tolerance

\* C18: for a target 65 s after the atTime call and timers fired within the
\* tolerance, every timer armed before the last is a 30000 ms timer that calls
\* atTime with the original target, and when the callback is called two such
\* timers have fired, at about 30 s and 60 s, and the callback is called at
\* the 65 s mark within the tolerance
C18_TwoReanchors ==
    (last.op = "atTime" /\ last.target = R(last.at + 65000) /\ WithinTolerance) =>
        /\ \A timer \in host.timers :
              /\ timer.handler.run = "atTime" =>
                    (timer.delay = R(30000) /\ timer.handler.time = last.args)
              /\ timer.handler.run = "func" => Cardinality(Reanchors) = 2
        /\ FuncCalls # {} =>
              /\ Len(host.log) = 3
              /\ Reanchors = {1, 2}
              /\ host.log[1].at \in (last.at + 30000)..(last.at + 30000 + Tolerance)
              /\ host.log[2].at \in (last.at + 60000)..(last.at + 60000 + 2 * Tolerance)
              /\ host.log[3].at \in (last.at + 65000)..(last.at + 65000 + Tolerance)

\* the chain for a 65 s target: atTime again at 30.007 s and 60.007 s, the
\* callback at 65.007 s
C18_Witness ==
    /\ last.op = "atTime"
    /\ last.target = R(last.at + 65000)
    /\ Len(host.log) = 3
    /\ host.log[1] = [run |-> "atTime", func |-> "checkFn", at |-> last.at + 30007, late |-> 7]
    /\ host.log[2] = [run |-> "atTime", func |-> "checkFn", at |-> last.at + 60007, late |-> 0]
    /\ host.log[3] = [run |-> "func", func |-> "checkFn", at |-> last.at + 65007, late |-> 7]

\* the target wait(x) is to reach, from x and the clock reading at the call
WaitTarget ==
    LET x == last.args
    IN  IF x.kind = "Date" THEN x.value
        ELSE IF x.kind = "object" /\ last.before[x.value].type = "TimePoint"
        THEN ScalarOf(last.before, x.value)
        ELSE IF x.kind = "number" THEN RAdd(R(last.at), x.value)
        ELSE RAdd(R(last.at), ArgValue(last.before, x))

\* what holds in every state after wait(x): a promise was returned; its target
\* is x for a TimePoint or Date and the clock at the call plus x for a number,
\* TimePeriod or mapping; the promise is pending until resolve is called and
\* fulfilled from then on; resolve is called at most once, by the chain of
\* timers atTime armed for that target, and not before the target
WaitState ==
    last.op = "wait" =>
        /\ last.ret = "Promise"
        /\ last.target = WaitTarget
        /\ host.promise = (IF FuncCalls = {} THEN "pending" ELSE "fulfilled")
        /\ Cardinality(FuncCalls) <= 1
        /\ Cardinality(host.timers) = (IF FuncCalls = {} THEN 1 ELSE 0)
        /\ \A timer \in host.timers :
              /\ timer.handler.func = "resolve"
              /\ timer.handler.run = "atTime" => whenMs(heap, timer.handler.time) = last.target
        /\ \A i \in FuncCalls : ~RLess(R(host.log[i].at), last.target)

\* C19: under FairSpecSchedule, wait(x) returns a promise that is fulfilled,
\* with no value and exactly once, by the atTime chain for its target (x
\* itself for a TimePoint or Date, the clock at the call plus x for a number,
\* TimePeriod or mapping), and never before the target
C19_WaitResolves ==
    /\ []WaitState
    /\ (last.op = "wait") ~> (host.promise = "fulfilled")

\* wait(65000): resolved at the target after two 30 s timers
C19_Witness ==
    /\ last.op = "wait"
    /\ last.args = Number(R(65000))
    /\ last.target = R(StartClock + 65000)
    /\ host.promise = "fulfilled"
    /\ Cardinality(Reanchors) = 2
    /\ host.timers = {}
    /\ \E i \in FuncCalls : R(host.log[i].at) = last.target

\* what holds in every state after atTime(time, func): nothing was returned
\* to cancel with, exactly one timer of the chain is armed until the callback
\* is called and none after it, the callback is called at most once, and the
\* i-th call of atTime by a timer comes 30 s or more after the one before it
\* and only while the target is 30 s or more away
ChainState ==
    last.op = "atTime" =>
        /\ last.ret = "undefined"
        /\ Cardinality(host.timers) = (IF FuncCalls = {} THEN 1 ELSE 0)
        /\ Cardinality(FuncCalls) <= 1
        /\ \A i \in FuncCalls : i = Len(host.log)
        /\ \A i \in Reanchors :
              /\ host.log[i].at >= last.at + 30000 * i
              /\ ~RLess(last.target, R(last.at + 30000 * i))

\* C20: under FairSpecSchedule, once atTime has been called the callback is
\* eventually called, after finitely many 30 s timers, and nothing cancels
\* the chain before that
C20_RunsToCompletion ==
    /\ []ChainState
    /\ (last.op = "atTime") ~> (FuncCalls # {} /\ host.timers = {})

\* the callback has been called after two 30 s timers, the second fired 6 s
\* late and so after the target, and no timer is left
C20_Witness ==
    /\ last.op = "atTime"
    /\ Len(host.log) = 3
    /\ Reanchors = {1, 2}
    /\ host.log[2].late = 6000
    /\ host.log[3].run = "func"
    /\ host.log[3].at = last.at + 66000
    /\ host.timers = {}

\* the timers armed to call the callback
FuncTimers == {timer \in host.timers : timer.handler.run = "func"}

OnTime == \A i \in DOMAIN host.log : host.log[i].late = 0

\* C21: after one atTime call the timer that calls the callback is armed at
\* most once, with delay target - clock at the moment it is armed; when every
\* timer fires on time the callback is called at the target exactly (at the
\* call's clock reading for a target already passed), whatever the distance
C21_ExactCompletion ==
    last.op = "atTime" =>
        /\ Cardinality(FuncTimers) + Cardinality(FuncCalls) <= 1
        /\ \A timer \in FuncTimers :
              timer.delay = RSub(last.target, R(timer.armedAt))
        /\ OnTime =>
              \A i \in FuncCalls :
                  R(host.log[i].at) = (IF RLess(last.target, R(last.at))
                                       THEN R(last.at) ELSE last.target)

\* target 65 s away, timers on time: the callback is called at 65 s, after
\* timers at 30 s and 60 s
C21_Witness ==
    /\ last.op = "atTime"
    /\ last.target = R(last.at + 65000)
    /\ OnTime
    /\ Len(host.log) = 3
    /\ host.log[3].run = "func"
    /\ host.log[3].at = last.at + 65000
    /\ host.log[2].at = last.at + 60000

\* every call of atTime, the first and each one made by a timer, has armed
\* one timer: for a target less than 30 s away (reached or passed included)
\* one that calls the callback after target - clock ms, otherwise one that
\* calls atTime with the same time and callback after 30000 ms
OneTimerPerCall ==
    last.op = "atTime" =>
        /\ Cardinality(host.timers) + Len(host.log) = 1 + Cardinality(Reanchors)
        /\ \A timer \in host.timers :
              LET diff == RSub(last.target, R(timer.armedAt))
              IN  /\ ~RLess(R(30000), timer.delay)
                  /\ IF RLess(diff, R(30000))
                     THEN /\ timer.handler = FuncHandler("checkFn")
                          /\ timer.delay = diff
                     ELSE /\ timer.handler = AtTimeHandler(last.args, "checkFn")
                          /\ timer.delay = R(30000)

\* the step that calls atTime arms a timer and calls nothing
NothingCalledInside ==
    (last = NoCall /\ last'.op = "atTime") =>
        /\ host'.log = host.log
        /\ host'.promise = host.promise
        /\ host'.clock = host.clock
        /\ Cardinality(host'.timers) = 1

\* C23: each atTime call arms exactly one timer and calls nothing itself;
\* below 30 s (zero and negative included) the timer is for diff ms and calls
\* the callback, otherwise it is for 30000 ms and calls atTime with the same
\* target and callback; no timer is requested for more than 30000 ms
C23_OneTimerPerCall == []OneTimerPerCall /\ [][NothingCalledInside]_vars

\* a target 5 s in the past: a timer with delay -5000 was armed and has called
\* the callback
C23_Witness ==
    /\ last.op = "atTime"
    /\ last.target = R(last.at - 5000)
    /\ host.log = <<[run |-> "func", func |-> "checkFn", at |-> last.at, late |-> 0]>>
    /\ host.timers = {}

\* a target 65 s away: the second 30000 ms timer is armed
C23_ReanchorWitness ==
    /\ last.op = "atTime"
    /\ last.target = R(last.at + 65000)
    /\ Len(host.log) = 1
    /\ \E timer \in host.timers :
          timer.handler.run = "atTime" /\ timer.delay = R(30000)

\* at most one timer of the chain is armed, and the callback has been called
\* at most once
OneTimerArmed ==
    last # NoCall => (Cardinality(host.timers) <= 1 /\ Cardinality(FuncCalls) <= 1)

\* a step in which a timer calls atTime again: that timer is no longer armed,
\* the one timer armed after it is new, and the callback is not called
ReanchorStep ==
    (Len(host'.log) = Len(host.log) + 1 /\ host'.log[Len(host'.log)].run = "atTime") =>
        /\ host'.timers \cap host.timers = {}
        /\ Cardinality(host'.timers) = 1
        /\ {i \in DOMAIN host'.log : host'.log[i].run = "func"} = FuncCalls
        /\ host'.promise = host.promise

\* C25: in every state of the chain started by one atTime (or wait) call at
\* most one of its timers is armed and the callback has been called at most
\* once; a timer that calls atTime again is gone after it and does not call
\* the callback
C25_OnePendingTimer == []OneTimerArmed /\ [][ReanchorStep]_vars

\* the second timer of a 65 s chain is the only one armed, 40 s late
C25_Witness ==
    /\ last.op = "atTime"
    /\ Len(host.log) = 1
    /\ host.log[1].run = "atTime"
    /\ host.log[1].late = 40000
    /\ Cardinality(host.timers) = 1
    /\ \A timer \in host.timers : timer.armedAt = host.log[1].at

(***************************************************************************)
(* Several atTime chains in flight                                         *)
(***************************************************************************)
\* the distances of the two targets from the first clock reading
ConcurrentOffsets == {<<200, -5000>>, <<200, 35000>>, <<65000, 200>>, <<31000, 61000>>}

InitConcurrent ==
    /\ \E offs \in ConcurrentOffsets :
          heap = <<PeriodObj(R(StartClock + offs[1])), PointObj(1),
                   PeriodObj(R(StartClock + offs[2])), PointObj(3)>>
    /\ last = [op |-> "concurrent", calls |-> <<>>]
    /\ host = [NoHost EXCEPT !.clock = StartClock]

\* the calls made: a TimePoint target with one callback, a Date target with
\* another
Chains == {[time |-> Ref(2), func |-> "fnA"],
           [time |-> DateOf(pointMs(heap, 4)), func |-> "fnB"]}

Called == {last.calls[i].func : i \in DOMAIN last.calls}

\* atTime(time, func) while other chains may be in flight
AtTimeConcurrent(chain) ==
    /\ chain.func \notin Called
    /\ LET r == atTime(heap, host, chain.time, chain.func)
       IN  /\ heap' = r.heap
           /\ host' = r.host
           /\ last' = [last EXCEPT !.calls = Append(@, [time |-> chain.time,
                                                         func |-> chain.func,
                                                         target |-> whenMs(heap, chain.time),
                                                         at |-> host.clock])]

NextConcurrent ==
    \/ \E chain \in Chains : AtTimeConcurrent(chain)
    \/ \E clock \in ClockReadings : Tick(clock)
    \/ \E timer \in host.timers : Fire(timer)

SpecConcurrent == InitConcurrent /\ [][NextConcurrent]_vars

\* the clock keeps advancing while a timer is armed, and a timer that is due
\* fires (weak fairness of Fire written out as in FairSpecSchedule)
FairSpecConcurrent ==
    /\ SpecConcurrent
    /\ WF_vars(\E clock \in ClockReadings : Tick(clock))
    /\ \/ []<>~TimerDue
       \/ []<><<\E timer \in host.timers : Fire(timer)>>_vars

\* the positions in the log at which func was called
CallsOf(func) == {i \in DOMAIN host.log : host.log[i].run = "func" /\ host.log[i].func = func}

TimersOf(func) == {timer \in host.timers : timer.handler.func = func}

\* each chain has one timer armed until its callback is called, its callback
\* is called at most once and not before its own target, its timers carry its
\* own target and callback, and the target it was given is unchanged
ChainsApart ==
    last.op = "concurrent" =>
        /\ \A timer \in host.timers : timer.handler.func \in Called
        /\ \A i \in DOMAIN host.log : host.log[i].func \in Called
        /\ \A k \in DOMAIN last.calls :
              LET call == last.calls[k]
              IN  /\ Cardinality(CallsOf(call.func)) <= 1
                  /\ Cardinality(TimersOf(call.func)) =
                        (IF CallsOf(call.func) = {} THEN 1 ELSE 0)
                  /\ \A i \in CallsOf(call.func) :
                        ~RLess(R(host.log[i].at), call.target)
                  /\ \A timer \in TimersOf(call.func) :
                        timer.handler.run = "atTime" =>
                            /\ timer.handler.time = call.time
                            /\ whenMs(heap, timer.handler.time) = call.target
                  /\ whenMs(heap, call.time) = call.target

\* C29: under FairSpecConcurrent, with two atTime chains in flight and their
\* timers fired in any order and however late, each chain's callback is called
\* exactly once and never before that chain's target, and no timer calls
\* another chain's callback or changes another chain's target
C29_ChainsIndependent ==
    /\ []ChainsApart
    /\ \A func \in {"fnA", "fnB"} : (func \in Called) ~> (CallsOf(func) # {})

\* both callbacks have been called, fnB (target 200 ms) before fnA (target
\* 65 s), although fnA's chain was started first
C29_Witness ==
    /\ last.op = "concurrent"
    /\ Len(last.calls) = 2
    /\ last.calls[1].func = "fnA"
    /\ last.calls[1].target = R(StartClock + 65000)
    /\ host.timers = {}
    /\ \E i \in CallsOf("fnB"), j \in CallsOf("fnA") : i < j /\ \E k \in DOMAIN host.log : k > i /\ host.log[k].run = "atTime"

(***************************************************************************)
(* Further claims about breakdown, checked under SpecBreakdown             *)
(***************************************************************************)
FloatLastOff == IsBreakdown /\ ~Resolved("floatLast", FALSE, TRUE)

RequestedList ==
    IF last.args.units.isArray THEN LastList
    ELSE <<"days", "hours", "minutes", "seconds", "milliseconds">>

Occurrences(list, u) == Cardinality({i \in DOMAIN list : list[i] = u})

AmountUnits == [i \in DOMAIN last.amounts |-> last.amounts[i].unit]

\* from position i on, each amount is the whole number with
\* amount <= remaining / divisor < amount + 1, and the next unit is computed
\* from remaining - amount * divisor
RECURSIVE FloorChain(_, _, _)
FloorChain(amounts, i, remaining) ==
    \/ i > Len(amounts)
    \/ LET div == divisors(amounts[i].unit)
           amount == amounts[i].amount
           quotient == RDiv(remaining, div)
       IN  /\ amount.d = 1
           /\ RLeq(amount, quotient)
           /\ RLess(quotient, RAdd(amount, R(1)))
           /\ FloorChain(amounts, i + 1, RSub(remaining, RMul(amount, div)))

\* C22: with floatLast = false the requested units are processed in
\* descending divisor order from remaining = asMilliseconds, every unit, the
\* last included, getting floor(remaining / divisor) rounded toward negative
\* infinity and remaining going down by amount * divisor, also for a negative
\* duration; over distinct units the result holds these amounts
C22_FloorChain ==
    FloatLastOff =>
        /\ \A u \in TimeUnit : Occurrences(AmountUnits, u) = Occurrences(RequestedList, u)
        /\ \A i, j \in DOMAIN last.amounts :
              i < j => ~RLess(divisors(AmountUnits[i]), divisors(AmountUnits[j]))
        /\ FloorChain(last.amounts, 1, LastMs)
        /\ Distinct(RequestedList) =>
              \A i \in DOMAIN last.amounts :
                  IF Resolved("includeZero", TRUE, FALSE) \/ last.amounts[i].amount # Zero
                  THEN /\ AmountUnits[i] \in Keys(last.ret)
                       /\ Get(last.ret, AmountUnits[i]) = last.amounts[i].amount
                  ELSE AmountUnits[i] \notin Keys(last.ret)

\* -1500 ms over seconds, milliseconds is {seconds: -2, milliseconds: 500}
C22_Witness ==
    /\ FloatLastOff
    /\ LastMs = R(-1500)
    /\ last.args.units.isArray
    /\ LastList = <<"seconds", "milliseconds">>
    /\ last.ret = <<[unit |-> "seconds", amount |-> R(-2)],
                    [unit |-> "milliseconds", amount |-> R(500)]>>

\* 0.5 ms over milliseconds with floatLast = false is {milliseconds: 0}: what
\* remains after the last unit is dropped
C22_DroppedWitness ==
    /\ FloatLastOff
    /\ LastMs = Frac(1, 2)
    /\ last.args.units.isArray
    /\ LastList = <<"milliseconds">>
    /\ last.ret = <<[unit |-> "milliseconds", amount |-> R(0)]>>

\* C27: with floatLast = false over distinct units, every unit but the most
\* significant requested one gets an amount that is at least 0 and less than
\* (divisor of the requested unit before it) / (its own divisor), for a
\* duration of either sign
C27_CarryBound ==
    (FloatLastOff /\ Distinct(RequestedList)) =>
        \A i \in DOMAIN last.amounts :
            i > 1 =>
                /\ ~RLess(last.amounts[i].amount, Zero)
                /\ RLess(last.amounts[i].amount,
                         RDiv(divisors(AmountUnits[i - 1]), divisors(AmountUnits[i])))

\* -1500 ms over milliseconds, seconds, hours: the hours carry the sign,
\* {hours: -1, seconds: 3598, milliseconds: 500}
C27_Witness ==
    /\ FloatLastOff
    /\ LastMs = R(-1500)
    /\ last.args.units.isArray
    /\ LastList = <<"milliseconds", "seconds", "hours">>
    /\ last.amounts = <<[unit |-> "hours", amount |-> R(-1)],
                        [unit |-> "seconds", amount |-> R(3598)],
                        [unit |-> "milliseconds", amount |-> R(500)]>>

\* 26 h over hours, minutes: only the first unit goes beyond a carry bound
C27_FirstUnitWitness ==
    /\ FloatLastOff
    /\ LastMs = R(93600000)
    /\ last.args.units.isArray
    /\ LastList = <<"hours", "minutes">>
    /\ last.amounts = <<[unit |-> "hours", amount |-> R(26)],
                        [unit |-> "minutes", amount |-> R(0)]>>

\* the list with every repetition of a unit removed
RECURSIVE WithoutRepetition(_)
WithoutRepetition(list) ==
    IF list = <<>> THEN <<>>
    ELSE LET front == WithoutRepetition(SubSeq(list, 1, Len(list) - 1))
             u == list[Len(list)]
         IN  IF u \in Range(front) THEN front ELSE Append(front, u)

\* C26: for every duration and options, breakdown over a list with a repeated
\* unit returns what breakdown over the list without the repetition returns
C26_RepetitionIgnored ==
    (IsBreakdown /\ last.args.units.isArray) =>
        last.ret = breakdown(LastMs, UnitList(WithoutRepetition(LastList)), LastOptions)

\* C26 holds when zero amounts are not stored
C26_RepetitionIgnoredWithoutZeros ==
    (IsBreakdown /\ last.args.units.isArray /\ ~Resolved("includeZero", TRUE, FALSE)) =>
        last.ret = breakdown(LastMs, UnitList(WithoutRepetition(LastList)), LastOptions)

\* 1500 ms over seconds, seconds is {seconds: 0}; over seconds it is {seconds: 1}
C26_Overwritten ==
    /\ IsBreakdown
    /\ last.args.units.isArray
    /\ LastList = <<"seconds", "seconds">>
    /\ LastOptions = NoOptions
    /\ LastMs = R(1500)
    /\ last.ret = <<[unit |-> "seconds", amount |-> R(0)]>>
    /\ breakdown(LastMs, UnitList(<<"seconds">>), NoOptions) =
           <<[unit |-> "seconds", amount |-> R(1)]>>

(***************************************************************************)
(* Further claims about the descriptor constructor, under SpecDescriptor   *)
(***************************************************************************)
Constructed == last.op = "new TimePoint" /\ last.threw.type = NoError

\* the string the constructor gave new Date(...)
ParsedString == pointMs(heap, last.ret).parse

\* v with its whole part written in two digits at least, the fraction after it
TwoDigits(v) ==
    LET whole == MathFloor(v)
    IN  padStart(NumberToString(whole), 2, "0")
        \o (IF v = whole THEN <<>> ELSE SubSeq(NumberToString(RSub(v, whole)), 2,
                                                Len(NumberToString(RSub(v, whole)))))

ClaimedString(d) ==
    NumberToString(d.year) \o <<"-">> \o TwoDigits(d.month) \o <<"-">> \o TwoDigits(d.day)
    \o <<" ">> \o TwoDigits(d.hour) \o <<":">> \o TwoDigits(d.minute) \o <<":">>
    \o TwoDigits(d.second) \o <<" ">> \o d.timezone

\* C24: when the constructor succeeds on a descriptor, the string given to the
\* host parser is year-month-day hour:minute:second timezone with month, day,
\* hour, minute and second in two digits, a fractional second included, and
\* the year as it is
C24_TwoDigitFields ==
    Constructed => ParsedString = ClaimedString(last.args.value)

\* C24 holds when the second is a whole number or is 10 or more
C24_TwoDigitFieldsFromTen ==
    (Constructed /\ (last.args.value.second.d = 1 \/ ~RLess(last.args.value.second, R(10)))) =>
        ParsedString = ClaimedString(last.args.value)

\* second 5.5 is written "5.5": 2020-02-29 19:30:5.5 GMT
C24_OneDigitSecond ==
    /\ Constructed
    /\ last.args.value.year = R(2020)
    /\ last.args.value.month = R(2)
    /\ last.args.value.day = R(29)
    /\ last.args.value.second = Frac(11, 2)
    /\ ParsedString = <<"2", "0", "2", "0", "-", "0", "2", "-", "2", "9", " ",
                        "1", "9", ":", "3", "0", ":", "5", ".", "5", " ", "G", "M", "T">>

\* second 59.999 is written in two digits: 2020-02-29 19:30:59.999 GMT
C24_FractionalSecondFromTen ==
    /\ Constructed
    /\ last.args.value.year = R(2020)
    /\ last.args.value.month = R(2)
    /\ last.args.value.day = R(29)
    /\ last.args.value.second = Frac(59999, 1000)
    /\ ParsedString = <<"2", "0", "2", "0", "-", "0", "2", "-", "2", "9", " ",
                        "1", "9", ":", "3", "0", ":", "5", "9", ".", "9", "9", "9",
                        " ", "G", "M", "T">>

RangeErrorOf(field) == [type |-> "RangeError", message |-> field]

\* the error of the earliest failing check in the claimed order: integrality
\* of year, month, day, hour, minute; month; day, against the last day the
\* host's Date gives for that month; hour; minute; second
FirstFailingCheck(d) ==
    IF \E v \in IntegralFields(d) : NonIntegral(v) THEN InvalidDescriptorError
    ELSE IF d.month.n < 1 \/ d.month.n > 12 THEN RangeErrorOf("Invalid month")
    ELSE IF RLess(d.day, R(1)) \/ RLess(Date_lastDayOfMonth(d.year, d.month), d.day)
    THEN RangeErrorOf("Invalid day")
    ELSE IF RLess(d.hour, Zero) \/ ~RLess(d.hour, R(24)) THEN RangeErrorOf("Invalid hour")
    ELSE IF RLess(d.minute, Zero) \/ ~RLess(d.minute, R(60)) THEN RangeErrorOf("Invalid minute")
    ELSE IF RLess(d.second, Zero) \/ ~RLess(d.second, R(60)) THEN RangeErrorOf("Invalid second")
    ELSE [type |-> NoError, message |-> ""]

\* C28: the constructor reports the first failing check in the order
\* integrality, month, day, hour, minute, second; a descriptor with a
\* non-integral field and an out-of-range field gets the invalid-descriptor
\* Error, not a RangeError
C28_FirstFailingCheck ==
    last.op = "new TimePoint" => last.threw = FirstFailingCheck(last.args.value)

\* C28 holds of descriptors whose non-integral fields are all positive
C28_FirstFailingCheckPositiveFractions ==
    (/\ last.op = "new TimePoint"
     /\ \A v \in IntegralFields(last.args.value) : NonIntegral(v) => RLess(Zero, v)) =>
        last.threw = FirstFailingCheck(last.args.value)

\* month -1.5 with hour 24: RangeError("Invalid month"), not the
\* invalid-descriptor Error
C28_RangeErrorForNonIntegral ==
    /\ last.op = "new TimePoint"
    /\ last.args.value.month = Frac(-3, 2)
    /\ last.args.value.hour = R(24)
    /\ \A v \in {last.args.value.year, last.args.value.day, last.args.value.minute} :
          ~NonIntegral(v)
    /\ last.threw = RangeErrorOf("Invalid month")

\* month 13, day 32, hour 24, minute 60, second 60 together: the month is
\* reported
C28_SeveralInvalid ==
    /\ last.op = "new TimePoint"
    /\ last.args.value.year = R(2020)
    /\ last.args.value.month = R(13)
    /\ last.args.value.day = R(32)
    /\ last.args.value.hour = R(24)
    /\ last.args.value.minute = R(60)
    /\ last.args.value.second = R(60)
    /\ last.threw = RangeErrorOf("Invalid month")

====
